---- MODULE Spec2Model ----
\* gw: worktree listing with background refresh.
\*
\* The repository holds three front ends over the same idea:
\*   - the worktree screen of ui.py over app.py (variables without a prefix:
\*     row_order, statuses_by_path, ...), specification Spec;
\*   - the curses picker of cli.py (variables prefixed cli_), specification
\*     SpecCli;
\*   - the Textual picker of tui.py over services.py and cache_db.py
\*     (variables prefixed tui_), specifications SpecTui and FairSpecTui.
EXTENDS Naturals, Integers, Sequences, FiniteSets, TLC

\* ------------------------------------------------------------------ bounds
\* Lifecycle key presses (create, delete, rename) the user makes in one run.
MaxOps == 2

\* ------------------------------------------------------------- the universe
NULL == "null"
NOBODY == "nobody"

\* Worktree paths; a branch worktree lives at repo_root / branch.
Paths == {"a", "b", "c"}

\* The worktree the process was started in (App.cwd).
CurrentPath == "a"

\* Order in which `git worktree list --porcelain` prints the records.
PathOrder == <<"a", "b", "c">>

\* The branch checked out at a path: the worktree at b has a detached HEAD.
Branch(p) == IF p = "b" THEN NULL ELSE p

\* ------------------------------------------------------------------ state
VARIABLES
    \* _WorktreeScreenState (ui.py)
    cursor, row_order, statuses_by_path, cached_paths, status_line,
    refreshing, refresh_requested,
    \* run_worktree_screen locals shared by the closures
    state_lock, stop_event,
    \* the repository on disk and the cache table of cache.py
    git_worktrees, cache_rows,
    \* the refresh worker thread: position and locals of _refresh_worker
    w_pc, w_worktrees, w_error, w_snapshot, w_local, w_remote, w_todo, w_cur,
    w_raised, w_updates,
    \* the event-loop thread: position and locals of the running key handler
    ui_pc, ui_sel, ui_arg,
    \* the environment's events so far: keys pressed and calls that raised
    ops,
    \* observations
    invalidate_under_lock, kicks_in_cycle, last_kicks, last_run_again,
    owed

\* cli.py: the curses front end (_run_tui, _refresh_from_upstream, main)
VARIABLES
    \* the shared list of WorktreeInfo objects and the generation of its contents
    cli_items, cli_gen,
    \* the paths that are directories on disk; whether gh is installed
    cli_dirs, cli_gh,
    \* the holders of _DB_LOCK and of state_lock; refresh_state["running"]
    cli_db_lock, cli_state_lock, cli_running,
    \* the refresh thread: position, list iterator, the item it refers to,
    \* and whether it is the thread main() started
    cli_r_pc, cli_r_idx, cli_r_item, cli_r_startup,
    \* the main thread: position, new_items of _reload_items, keys handled,
    \* the rows of the last paint, status_line
    cli_m_pc, cli_m_new, cli_keys, cli_painted, cli_status,
    \* observations
    cli_state_then_db, cli_db_then_state, cli_burst_presses, cli_burst_cycles

cliVars == <<cli_items, cli_gen, cli_dirs, cli_gh, cli_db_lock, cli_state_lock,
             cli_running, cli_r_pc, cli_r_idx, cli_r_item, cli_r_startup,
             cli_m_pc, cli_m_new, cli_keys, cli_painted, cli_status,
             cli_state_then_db, cli_db_then_state, cli_burst_presses,
             cli_burst_cycles>>

\* tui.py, services.py, cache_db.py: the Textual front end
VARIABLES
    \* the holders of cache_db._DB_LOCK and of state_lock
    tui_db_lock, tui_state_lock,
    \* refresh_state["running"], TuiApp._busy, the status line
    tui_running, tui_busy, tui_status,
    \* positions of the event-loop thread, the refresh thread and the
    \* lifecycle-operation thread; keys handled
    tui_pc, tui_r_pc, tui_op_pc, tui_keys,
    \* the operation handed to _run_action_with_spinner
    tui_op,
    \* the repository: its local branches, the branch checked out in each
    \* worktree path, the paths that exist under the repository root
    tui_branches, tui_wt, tui_dirs,
    \* the keys of the rows of worktree_cache, and the lifecycle operations
    \* that succeeded so far
    tui_cache, tui_life

tuiVars == <<tui_db_lock, tui_state_lock, tui_running, tui_busy, tui_status,
             tui_pc, tui_r_pc, tui_op_pc, tui_keys, tui_op,
             tui_branches, tui_wt, tui_dirs, tui_cache, tui_life>>

\* app.py: the status of one worktree on its way through a refresh pass
\* (_placeholder_status, _build_local_status, _apply_remote_updates)
VARIABLES
    \* the branch of the worktree (NULL: detached), the status emitted last
    \* and the stage that emitted it
    st_branch, st_status, st_stage

stVars == <<st_branch, st_status, st_stage>>

\* services.py, gh_ops.py, cache_db.py: one worktree's checks and the cache
VARIABLES
    \* the worktree as `git worktree list` prints it: branch and head
    gh_wt,
    \* the list of WorktreeInfo loaded (empty before the first load), the
    \* rows of the worktree_cache table by key
    gh_items, gh_cache,
    \* refresh_github: position, the statusCheckRollup fetched and the
    \* ChecksInfo computed from it (empty: None)
    gh_pc, gh_rollup, gh_info,
    \* the latest call of make_cache_key: branch, head and the key returned
    gh_call

ghVars == <<gh_wt, gh_items, gh_cache, gh_pc, gh_rollup, gh_info, gh_call>>

\* cache.py: the worktrees table of Cache
VARIABLES
    \* the rows by primary key (str(path)), the collection passed to the
    \* latest upsert_worktrees and the keys the table held before it, the
    \* list returned by the latest load_worktrees, and what ran last
    db_rows, db_xs, db_before, db_loaded, db_pc

dbVars == <<db_rows, db_xs, db_before, db_loaded, db_pc>>

\* app.py over git.py: the worktrees of the repository and the commands run
VARIABLES
    \* the local branches, the branch checked out at each worktree path, the
    \* paths that exist under the repository root, and the lifecycle
    \* operations that returned normally and changed the repository
    app_branches, app_wt, app_dirs, app_life

appVars == <<app_branches, app_wt, app_dirs, app_life>>

\* services.py over cache_db.py: the refresh stages and the rows they write
VARIABLES
    \* the rows of worktree_cache by key, the list of WorktreeInfo objects
    sec_rows, sec_items,
    \* refresh_from_upstream: the stage, the index of the next item, whether
    \* gh is available, the cycles started so far
    sec_pc, sec_idx, sec_gh, sec_cycles,
    \* int(time.time()), and the latest step of a stage: the stage, the index
    \* of its item, the upsert it made (NULL: none)
    sec_now, sec_last

secVars == <<sec_rows, sec_items, sec_pc, sec_idx, sec_gh, sec_cycles, sec_now, sec_last>>

\* tui.py: the DataTable and its cursor
VARIABLES
    \* self.items as (path, branch) rows, and table.cursor_row
    tbl_items, tbl_cursor,
    \* the path under the cursor when the latest repaint or reload began
    \* (NULL: none yet), and the latest step
    tbl_before, tbl_op

tblVars == <<tbl_items, tbl_cursor, tbl_before, tbl_op>>

\* git.py list_worktrees, git_ops.py parse_worktrees: the porcelain listing
VARIABLES
    \* the records git printed, repo_root, and the lines still to be read
    lw_records, lw_root, lw_lines,
    \* the dict of the record being read, the entries built so far
    lw_current, lw_entries,
    \* the list returned by git.list_worktrees, the list returned by
    \* git_ops.parse_worktrees, and the position in the run
    lw_out, lw_parsed, lw_pc

lwVars == <<lw_records, lw_root, lw_lines, lw_current, lw_entries, lw_out, lw_parsed, lw_pc>>

\* tui.py, cli.py, ui.py: the cells of a row
VARIABLES
    \* the item to format, its last_commit_ts and the clock
    fmt_item, fmt_ts, fmt_now,
    \* the pull/push cell of tui.py and of cli.py, the age by tui.py's
    \* relative_time and by ui.py's _format_relative_commit_age, and the
    \* formatters that have run
    fmt_pull_push, fmt_cli_pull_push, fmt_time, fmt_age, fmt_done

fmtVars == <<fmt_item, fmt_ts, fmt_now, fmt_pull_push, fmt_cli_pull_push, fmt_time,
             fmt_age, fmt_done>>

\* app.py: the comparison target of the two builds
VARIABLES
    \* the status of the worktree of branch "a", the stage that built it, and
    \* what git answered to that stage
    tg_status, tg_stage, tg_git

tgVars == <<tg_status, tg_stage, tg_git>>

screenVars == <<cursor, row_order, statuses_by_path, cached_paths, status_line,
                refreshing, refresh_requested>>
workerVars == <<w_pc, w_worktrees, w_error, w_snapshot, w_local, w_remote, w_todo, w_cur,
                w_raised, w_updates>>
uiVars == <<ui_pc, ui_sel, ui_arg>>
obsVars == <<invalidate_under_lock, kicks_in_cycle, last_kicks, last_run_again,
             owed>>

\* All of the worktree screen of ui.py.
screenAll == <<screenVars, state_lock, stop_event, git_worktrees, cache_rows,
               workerVars, uiVars, ops, obsVars>>

vars == <<screenAll, cliVars, tuiVars, stVars, ghVars, dbVars, appVars, secVars,
    tblVars, lwVars, fmtVars, tgVars>>

\* One part runs at a time: the others stay as they are.
OthersThanScreen == <<cliVars, tuiVars, stVars, ghVars, dbVars, appVars, secVars,
    tblVars, lwVars, fmtVars, tgVars>>
OthersThanCli == <<screenAll, tuiVars, stVars, ghVars, dbVars, appVars, secVars,
    tblVars, lwVars, fmtVars, tgVars>>
OthersThanTui == <<screenAll, cliVars, stVars, ghVars, dbVars, appVars, secVars,
    tblVars, lwVars, fmtVars, tgVars>>
OthersThanStatus == <<screenAll, cliVars, tuiVars, ghVars, dbVars, appVars, secVars,
    tblVars, lwVars, fmtVars, tgVars>>
OthersThanChecks == <<screenAll, cliVars, tuiVars, stVars, dbVars, appVars, secVars,
    tblVars, lwVars, fmtVars, tgVars>>
OthersThanCache == <<screenAll, cliVars, tuiVars, stVars, ghVars, appVars, secVars,
    tblVars, lwVars, fmtVars, tgVars>>
OthersThanApp == <<screenAll, cliVars, tuiVars, stVars, ghVars, dbVars, secVars,
    tblVars, lwVars, fmtVars, tgVars>>
OthersThanSections == <<screenAll, cliVars, tuiVars, stVars, ghVars, dbVars, appVars,
    tblVars, lwVars, fmtVars, tgVars>>
OthersThanTable == <<screenAll, cliVars, tuiVars, stVars, ghVars, dbVars, appVars,
    secVars, lwVars, fmtVars, tgVars>>
OthersThanListing == <<screenAll, cliVars, tuiVars, stVars, ghVars, dbVars, appVars,
    secVars, tblVars, fmtVars, tgVars>>
OthersThanFormat == <<screenAll, cliVars, tuiVars, stVars, ghVars, dbVars, appVars,
    secVars, tblVars, lwVars, tgVars>>
OthersThanTarget == <<screenAll, cliVars, tuiVars, stVars, ghVars, dbVars, appVars,
    secVars, tblVars, lwVars, fmtVars>>

\* ---------------------------------------------------------------- helpers
EmptyMap == [p \in {} |-> NULL]

MapUpdate(f, g) ==
    [p \in (DOMAIN f) \cup (DOMAIN g) |-> IF p \in DOMAIN g THEN g[p] ELSE f[p]]

MapPut(f, p, v) == [q \in (DOMAIN f) \cup {p} |-> IF q = p THEN v ELSE f[q]]

MapPop(f, p) == [q \in (DOMAIN f) \ {p} |-> f[q]]

Range(s) == {s[i] : i \in 1..Len(s)}

RECURSIVE FilterSeq(_, _)
FilterSeq(s, keep) ==
    IF s = <<>> THEN <<>>
    ELSE IF Head(s) \in keep
         THEN <<Head(s)>> \o FilterSeq(Tail(s), keep)
         ELSE FilterSeq(Tail(s), keep)

\* git.list_worktrees: the records of the listing, in the listing's order.
ListWorktrees(wts) == FilterSeq(PathOrder, wts)

\* WorktreeStatus, reduced to the fields the screen's logic reads or carries.
Status(p, b, ts, stage) ==
    [path |-> p, branch |-> b, last_commit_ts |-> ts, stage |-> stage]

\* ui.py _placeholder_status / app.py _placeholder_status
\* Python's None where a WorktreeStatus is expected.
NoStatus == Status(NULL, NULL, 0, "none")

PlaceholderStatus(p, b) == Status(p, b, 0, "placeholder")

\* git.get_last_commit_ts of a worktree that exists: newer than anything cached.
GitCommitTs(p) == 4

\* The cache contents a run may start from, as last_commit_ts by cached path:
\* no cache, the two worktrees that exist (the older or the newer one first
\* in the listing), or one that exists and one whose worktree is gone.
CachedTsOptions ==
    { EmptyMap,
      [p \in {"a", "b"} |-> IF p = "a" THEN 1 ELSE 2],
      [p \in {"a", "b"} |-> IF p = "a" THEN 3 ELSE 2],
      [p \in {"b", "c"} |-> IF p = "b" THEN 2 ELSE 3] }

\* sorted(cached, key=lambda s: s.last_commit_ts, reverse=True): stable.
RECURSIVE InsertByTsDesc(_, _, _)
InsertByTsDesc(p, s, ts) ==
    IF s = <<>> THEN <<p>>
    ELSE IF ts[p] > ts[Head(s)]
         THEN <<p>> \o s
         ELSE <<Head(s)>> \o InsertByTsDesc(p, Tail(s), ts)

RECURSIVE SortedByTsDesc(_, _)
SortedByTsDesc(s, ts) ==
    IF s = <<>> THEN <<>>
    ELSE InsertByTsDesc(s[Len(s)], SortedByTsDesc(SubSeq(s, 1, Len(s) - 1), ts), ts)

\* ui.py _merge_order: surviving paths in their previous order, newcomers after.
RECURSIVE DropSeen(_, _)
DropSeen(s, seen) ==
    IF s = <<>> THEN <<>>
    ELSE IF Head(s) \in seen
         THEN DropSeen(Tail(s), seen)
         ELSE <<Head(s)>> \o DropSeen(Tail(s), seen \cup {Head(s)})

\* The newcomers first, the surviving paths after them.
NewcomersFirst(worktrees, previous) ==
    FilterSeq(worktrees, Range(worktrees) \ Range(previous))
        \o DropSeen(FilterSeq(previous, Range(worktrees)), {})

MergeOrder(worktrees, previous) ==
    DropSeen(FilterSeq(previous, Range(worktrees)), {})
        \o FilterSeq(worktrees, Range(worktrees) \ Range(previous))

\* ------------------------------------------------------- locks and callbacks
\* application.invalidate() called by thread t right after the with-block it
\* follows has been left; records whether t still held the state lock.
InvalidateBeforeRelease(t) == invalidate_under_lock' = TRUE
InvalidateAfterRelease(t) ==
    invalidate_under_lock' = (invalidate_under_lock \/ state_lock' = t)

\* ui.py _set_status, from the point where the lock is held.
SetStatus(t, text) ==
    /\ state_lock = NOBODY
    /\ status_line' = text
    /\ state_lock' = NOBODY
    /\ InvalidateAfterRelease(t)

\* ui.py _clamp_cursor, from the point where the lock is held.
ClampedCursor(c, order) ==
    IF order = <<>> THEN 0
    ELSE IF c >= Len(order) THEN Len(order) - 1   \* max(0, len - 1), len >= 1
    ELSE c

\* ------------------------------------------------ the refresh worker (ui.py)
\* Some shorthands for what an action of one thread leaves alone.
WorkerLocalsExcept(changed) ==
    /\ ("w_worktrees" \in changed \/ w_worktrees' = w_worktrees)
    /\ ("w_error" \in changed \/ w_error' = w_error)
    /\ ("w_snapshot" \in changed \/ w_snapshot' = w_snapshot)
    /\ ("w_local" \in changed \/ w_local' = w_local)
    /\ ("w_remote" \in changed \/ w_remote' = w_remote)
    /\ ("w_todo" \in changed \/ w_todo' = w_todo)
    /\ ("w_cur" \in changed \/ w_cur' = w_cur)
    /\ ("w_raised" \in changed \/ w_raised' = w_raised)
    /\ ("w_updates" \in changed \/ w_updates' = w_updates)
    /\ ("ops" \in changed \/ ops' = ops)
    /\ UNCHANGED OthersThanScreen

NoUpdates == [p \in Paths |-> 0]

\* Whether the next call may raise, and the count of the calls that did.
Raises == IF ops < MaxOps THEN BOOLEAN ELSE {FALSE}
CountRaise(raised) == ops' = IF raised THEN ops + 1 ELSE ops

\* The locals of one pass of the loop are dead once the pass is over.
WorkerLocalsDropped ==
    /\ w_worktrees' = <<>>
    /\ w_error' = FALSE
    /\ w_snapshot' = EmptyMap
    /\ w_local' = EmptyMap
    /\ w_remote' = EmptyMap
    /\ w_todo' = {}
    /\ w_cur' = NoStatus
    /\ w_raised' = {}
    /\ w_updates' = NoUpdates
    /\ ops' = ops
    /\ UNCHANGED OthersThanScreen

\* Positions of a thread: at a statement outside any with-block, or about to
\* enter a `with state_lock:` block. A with-block is one step: it is entered
\* when nobody holds the lock and the lock is free again when it is left.
At(name) == <<name, "at">>
LockPc(name) == <<name, "lock">>

\* `while True: if stop_event.is_set(): return`, else a cycle begins.
WorkerTop ==
    /\ w_pc = At("top")
    /\ IF stop_event
       THEN /\ w_pc' = At("none")
            /\ UNCHANGED owed
       ELSE /\ w_pc' = LockPc("status_refreshing")
            /\ owed' = owed - 1
    /\ UNCHANGED <<screenVars, state_lock, stop_event, git_worktrees, cache_rows, uiVars,
                   invalidate_under_lock, kicks_in_cycle, last_kicks, last_run_again>>
    /\ WorkerLocalsExcept({})

\* _set_status("Refreshing...")
WorkerStatusRefreshing ==
    /\ w_pc = LockPc("status_refreshing")
    /\ SetStatus("worker", "Refreshing...")
    /\ w_pc' = At("list")
    /\ UNCHANGED <<cursor, row_order, statuses_by_path, cached_paths, refreshing,
                   refresh_requested, stop_event, git_worktrees, cache_rows, uiVars,
                   kicks_in_cycle, last_kicks, last_run_again, owed>>
    /\ WorkerLocalsExcept({})

\* worktrees = app.list_worktrees(), or refresh_error and [] when it raises.
WorkerList ==
    /\ w_pc = At("list")
    /\ \E raised \in Raises :
          /\ CountRaise(raised)
          /\ w_error' = raised
          /\ w_worktrees' = IF raised THEN <<>> ELSE ListWorktrees(git_worktrees)
    /\ w_pc' = LockPc("merge")
    /\ UNCHANGED <<screenVars, state_lock, stop_event, git_worktrees, cache_rows, uiVars,
                   obsVars>>
    /\ WorkerLocalsExcept({"w_error", "w_worktrees", "ops"})

\* state.cached_paths.discard(path) for every path of statuses_by_path that
\* the new row_order does not hold.
DiscardVanished(cached, statuses, existing) == cached \ ((DOMAIN statuses) \ existing)

\* The block that installs the new row_order, drops the statuses of vanished
\* paths and gives every new path a placeholder.
WorkerMerge ==
    /\ w_pc = LockPc("merge")
    /\ state_lock = NOBODY
    /\ LET ordered == MergeOrder(w_worktrees, row_order)
           existing == Range(ordered)
           kept == [p \in (DOMAIN statuses_by_path) \cap existing |-> statuses_by_path[p]]
           fresh == existing \ DOMAIN statuses_by_path
       IN /\ row_order' = ordered
          /\ statuses_by_path' =
                [p \in (DOMAIN kept) \cup fresh |->
                    IF p \in fresh THEN PlaceholderStatus(p, Branch(p)) ELSE kept[p]]
          /\ cached_paths' =
                DiscardVanished(cached_paths, statuses_by_path, existing) \cup fresh
    /\ state_lock' = NOBODY
    /\ w_pc' = LockPc("clamp")
    /\ UNCHANGED <<cursor, status_line, refreshing, refresh_requested, stop_event,
                   git_worktrees, cache_rows, uiVars, obsVars>>
    /\ WorkerLocalsExcept({})

\* _clamp_cursor(); application.invalidate()
WorkerClamp ==
    /\ w_pc = LockPc("clamp")
    /\ state_lock = NOBODY
    /\ cursor' = ClampedCursor(cursor, row_order)
    /\ state_lock' = NOBODY
    /\ InvalidateAfterRelease("worker")
    /\ w_pc' = IF w_worktrees = <<>> THEN LockPc("status_empty") ELSE LockPc("snapshot")
    /\ UNCHANGED <<row_order, statuses_by_path, cached_paths, status_line, refreshing,
                   refresh_requested, stop_event, git_worktrees, cache_rows, uiVars,
                   kicks_in_cycle, last_kicks, last_run_again, owed>>
    /\ WorkerLocalsExcept({})

\* `if not worktrees:` _set_status(refresh_error or "No worktrees found.")
WorkerStatusEmpty ==
    /\ w_pc = LockPc("status_empty")
    /\ SetStatus("worker", IF w_error THEN "Refresh failed" ELSE "No worktrees found.")
    /\ w_pc' = LockPc("finish")
    /\ UNCHANGED <<cursor, row_order, statuses_by_path, cached_paths, refreshing,
                   refresh_requested, stop_event, git_worktrees, cache_rows, uiVars,
                   kicks_in_cycle, last_kicks, last_run_again, owed>>
    /\ WorkerLocalsExcept({})

\* current_snapshot = dict(state.statuses_by_path); the local stage starts:
\* every worktree's _build_local_status is submitted to the pool.
WorkerSnapshot ==
    /\ w_pc = LockPc("snapshot")
    /\ state_lock = NOBODY
    /\ w_snapshot' = statuses_by_path
    /\ state_lock' = NOBODY
    /\ w_todo' = Range(w_worktrees)
    /\ w_local' = EmptyMap
    /\ w_remote' = EmptyMap
    /\ w_raised' = {}
    /\ w_updates' = NoUpdates
    /\ w_pc' = At("local_run")
    /\ UNCHANGED <<screenVars, stop_event, git_worktrees, cache_rows, uiVars, obsVars>>
    /\ WorkerLocalsExcept({"w_snapshot", "w_todo", "w_local", "w_remote", "w_raised",
                           "w_updates"})

\* One future of the local stage completes: _build_local_status returned, or
\* raised and the worktree gets a placeholder; statuses[status.path] = status.
LocalResult(p, raised) ==
    IF raised THEN PlaceholderStatus(p, Branch(p))
    ELSE Status(p, Branch(p), GitCommitTs(p), "local")

\* The with-block of _on_update, then application.invalidate().
OnUpdateBody(stage, nextStage) ==
    /\ w_pc = LockPc(stage \o "_update")
    /\ state_lock = NOBODY
    /\ statuses_by_path' = MapPut(statuses_by_path, w_cur.path, w_cur)
    /\ cached_paths' = cached_paths \ {w_cur.path}
    /\ state_lock' = NOBODY
    /\ InvalidateAfterRelease("worker")
    /\ w_pc' = IF w_todo = {} THEN LockPc(nextStage) ELSE At(stage \o "_run")
    /\ UNCHANGED <<cursor, row_order, status_line, refreshing, refresh_requested,
                   stop_event, git_worktrees, cache_rows, uiVars,
                   kicks_in_cycle, last_kicks, last_run_again, owed>>
    /\ WorkerLocalsExcept({})

\* on_update(status) is called once for the completed future; _on_update
\* returns at once when the stop flag is set.
OnUpdateDropped(status) == w_updates
OnUpdateCalls(status) == [w_updates EXCEPT ![status.path] = @ + 1]

AfterOnUpdateCall(stage, nextStage, todo) ==
    IF stop_event
    THEN (IF todo = {} THEN LockPc(nextStage) ELSE At(stage \o "_run"))
    ELSE LockPc(stage \o "_update")

WorkerLocalRun ==
    /\ w_pc = At("local_run")
    /\ \E p \in w_todo, raised \in Raises :
          /\ CountRaise(raised)
          /\ w_cur' = LocalResult(p, raised)
          /\ w_local' = MapPut(w_local, w_cur'.path, w_cur')
          /\ w_todo' = w_todo \ {p}
          /\ w_raised' = IF raised THEN w_raised \cup {p} ELSE w_raised
    /\ w_updates' = OnUpdateCalls(w_cur')
    /\ w_pc' = AfterOnUpdateCall("local", "local_bulk", w_todo')
    /\ UNCHANGED <<screenVars, state_lock, stop_event, git_worktrees, cache_rows, uiVars,
                   obsVars>>
    /\ WorkerLocalsExcept({"w_cur", "w_local", "w_todo", "w_raised", "w_updates", "ops"})

WorkerLocalUpdate == OnUpdateBody("local", "local_bulk")

\* After the local stage: statuses_by_path.update(local_statuses), the paths
\* leave cached_paths, and the snapshot that seeds the remote stage is taken.
SeedBeforeLocal(statuses) == w_snapshot
SeedAfterLocal(statuses) == statuses

WorkerLocalBulk ==
    /\ w_pc = LockPc("local_bulk")
    /\ state_lock = NOBODY
    /\ statuses_by_path' = MapUpdate(statuses_by_path, w_local)
    /\ cached_paths' = cached_paths \ DOMAIN w_local
    /\ w_snapshot' = SeedAfterLocal(statuses_by_path')
    /\ state_lock' = NOBODY
    /\ w_pc' = At("remote_sync")
    /\ UNCHANGED <<cursor, row_order, status_line, refreshing, refresh_requested,
                   stop_event, git_worktrees, cache_rows, uiVars, obsVars>>
    /\ WorkerLocalsExcept({"w_snapshot"})

\* refresh_statuses_remote_stream up to the pool: sync_repo, get_github_repo,
\* list_pull_requests. When that part raises, the worker's except clause sets
\* refresh_error and remote_statuses = {}.
WorkerRemoteSync ==
    /\ w_pc = At("remote_sync")
    /\ \E raised \in Raises :
          /\ CountRaise(raised)
          /\ IF raised
             THEN /\ w_error' = TRUE
                  /\ w_todo' = {}
                  /\ w_pc' = LockPc("remote_bulk")
             ELSE /\ w_error' = w_error
                  /\ w_todo' = Range(w_worktrees)
                  /\ w_pc' = At("remote_run")
    /\ w_remote' = EmptyMap
    /\ w_raised' = {}
    /\ w_updates' = NoUpdates
    /\ UNCHANGED <<screenVars, state_lock, stop_event, git_worktrees, cache_rows, uiVars,
                   obsVars>>
    /\ WorkerLocalsExcept({"w_error", "w_todo", "w_remote", "w_raised", "w_updates", "ops"})

\* base = current.get(wt.path) or self._placeholder_status(wt)
RemoteBase(current, p) ==
    IF p \in DOMAIN current THEN current[p] ELSE PlaceholderStatus(p, Branch(p))

\* _apply_remote_updates carries path, branch, last_commit_ts and upstream over
\* from the status it is given; when it raises the worktree keeps that status.
RemoteResult(base, raised) ==
    IF raised THEN base
    ELSE Status(base.path, base.branch, base.last_commit_ts, "remote")

WorkerRemoteRun ==
    /\ w_pc = At("remote_run")
    /\ \E p \in w_todo, raised \in Raises :
          /\ CountRaise(raised)
          /\ w_cur' = RemoteResult(RemoteBase(w_snapshot, p), raised)
          /\ w_remote' = MapPut(w_remote, w_cur'.path, w_cur')
          /\ w_todo' = w_todo \ {p}
          /\ w_raised' = IF raised THEN w_raised \cup {p} ELSE w_raised
    /\ w_updates' = OnUpdateCalls(w_cur')
    /\ w_pc' = AfterOnUpdateCall("remote", "remote_bulk", w_todo')
    /\ UNCHANGED <<screenVars, state_lock, stop_event, git_worktrees, cache_rows, uiVars,
                   obsVars>>
    /\ WorkerLocalsExcept({"w_cur", "w_remote", "w_todo", "w_raised", "w_updates", "ops"})

WorkerRemoteUpdate == OnUpdateBody("remote", "remote_bulk")

\* state.statuses_by_path.update(remote_statuses)
WorkerRemoteBulk ==
    /\ w_pc = LockPc("remote_bulk")
    /\ state_lock = NOBODY
    /\ statuses_by_path' = MapUpdate(statuses_by_path, w_remote)
    /\ state_lock' = NOBODY
    /\ w_pc' = LockPc("final_snapshot")
    /\ UNCHANGED <<cursor, row_order, cached_paths, status_line, refreshing,
                   refresh_requested, stop_event, git_worktrees, cache_rows, uiVars,
                   obsVars>>
    /\ WorkerLocalsExcept({})

\* ordered_paths = list(state.row_order); statuses_by_path = dict(...): the
\* rows that will be written to the cache.
WorkerFinalSnapshot ==
    /\ w_pc = LockPc("final_snapshot")
    /\ state_lock = NOBODY
    /\ w_snapshot' = [p \in Range(row_order) \cap DOMAIN statuses_by_path |->
                         statuses_by_path[p]]
    /\ state_lock' = NOBODY
    /\ w_pc' = At("upsert")
    /\ UNCHANGED <<screenVars, stop_event, git_worktrees, cache_rows, uiVars, obsVars>>
    /\ WorkerLocalsExcept({"w_snapshot"})

\* cache.py upsert_worktrees: INSERT ... ON CONFLICT(path) DO UPDATE, per status.
UpsertWorktrees(rows, statuses) == MapUpdate(rows, statuses)

\* `if ordered_paths: app.upsert_cached_statuses([...])`
WorkerUpsert ==
    /\ w_pc = At("upsert")
    /\ cache_rows' = UpsertWorktrees(cache_rows, w_snapshot)
    /\ w_pc' = LockPc("status_done")
    /\ UNCHANGED <<screenVars, state_lock, stop_event, git_worktrees, uiVars, obsVars>>
    /\ WorkerLocalsExcept({})

\* _set_status(refresh_error) or _set_status(f"Updated {timestamp}")
WorkerStatusDone ==
    /\ w_pc = LockPc("status_done")
    /\ SetStatus("worker", IF w_error THEN "Refresh failed" ELSE "Updated")
    /\ w_pc' = LockPc("finish")
    /\ UNCHANGED <<cursor, row_order, statuses_by_path, cached_paths, refreshing,
                   refresh_requested, stop_event, git_worktrees, cache_rows, uiVars,
                   kicks_in_cycle, last_kicks, last_run_again, owed>>
    /\ WorkerLocalsExcept({})

\* The last block of the loop: refreshing is cleared, the pending request is
\* consumed, and the worker loops when there was one, else returns.
\* state.refresh_requested = False
RequestKeptAfterFinish == refresh_requested
RequestAfterFinish == FALSE

\* The worker returns whatever was requested while it ran.
RunAgainNever(requested) == FALSE

\* run_again = state.refresh_requested, read in the block that clears refreshing.
RunAgain(requested) == requested

WorkerFinish ==
    /\ w_pc = LockPc("finish")
    /\ state_lock = NOBODY
    /\ LET run_again == RunAgain(refresh_requested)
       IN /\ refreshing' = run_again
          /\ refresh_requested' = RequestAfterFinish
          /\ w_pc' = IF run_again THEN At("top") ELSE At("none")
          /\ last_run_again' = run_again
          /\ owed' = IF run_again THEN owed + 1 ELSE owed
    /\ last_kicks' = kicks_in_cycle
    /\ kicks_in_cycle' = 0
    /\ state_lock' = NOBODY
    /\ UNCHANGED <<cursor, row_order, statuses_by_path, cached_paths, status_line,
                   stop_event, git_worktrees, cache_rows, uiVars,
                   invalidate_under_lock>>
    /\ WorkerLocalsDropped

WorkerStep ==
    \/ WorkerTop
    \/ WorkerStatusRefreshing
    \/ WorkerList
    \/ WorkerMerge
    \/ WorkerClamp
    \/ WorkerStatusEmpty
    \/ WorkerSnapshot
    \/ WorkerLocalRun
    \/ WorkerLocalUpdate
    \/ WorkerLocalBulk
    \/ WorkerRemoteSync
    \/ WorkerRemoteRun
    \/ WorkerRemoteUpdate
    \/ WorkerRemoteBulk
    \/ WorkerFinalSnapshot
    \/ WorkerUpsert
    \/ WorkerStatusDone
    \/ WorkerFinish

\* ------------------------------------------- the event-loop thread (ui.py)
\* The locals of a key handler are dead once it has returned.
UiLocalsDropped == ui_sel' = NoStatus /\ ui_arg' = NULL

\* A thread is started whatever state.refreshing says.
KickStartsAlways(is_refreshing) == TRUE

\* `if state.refreshing: ... return`: a thread is started only otherwise.
KickStarts(is_refreshing) == ~is_refreshing

\* _kick_refresh: under the lock a running refresh only gets the request
\* flagged; otherwise refreshing is set and the worker thread is started.
KickRefresh ==
    /\ ui_pc = LockPc("kick")
    /\ state_lock = NOBODY
    /\ IF ~KickStarts(refreshing)
       THEN /\ refresh_requested' = TRUE
            /\ kicks_in_cycle' = kicks_in_cycle + 1
            /\ UNCHANGED <<refreshing, w_pc, owed>>
       ELSE /\ refreshing' = TRUE
            /\ w_pc' = At("top")
            /\ owed' = owed + 1
            /\ UNCHANGED <<refresh_requested, kicks_in_cycle>>
    /\ state_lock' = NOBODY
    /\ ui_pc' = At("idle")
    /\ UNCHANGED <<cursor, row_order, statuses_by_path, cached_paths, status_line,
                   stop_event, git_worktrees, cache_rows, ops,
                   invalidate_under_lock, last_kicks, last_run_again>>
    /\ UiLocalsDropped
    /\ WorkerLocalsExcept({})

\* run_worktree_screen calls _kick_refresh() once before application.run().
UiStart ==
    /\ ui_pc = At("start")
    /\ ui_pc' = LockPc("kick")
    /\ UNCHANGED <<screenVars, state_lock, stop_event, git_worktrees, cache_rows,
                   workerVars, OthersThanScreen, ui_sel, ui_arg, ops, obsVars>>

\* A key arrives while the event loop is idle.
UiKey ==
    /\ ui_pc = At("idle")
    /\ \E key \in {"up", "down", "enter", "escape", "d", "c", "r"} :
          CASE key = "up" ->
                  ops < MaxOps /\ ops' = ops + 1 /\ ui_pc' = LockPc("up")
                  /\ UNCHANGED stop_event
            [] key = "down" ->
                  ops < MaxOps /\ ops' = ops + 1 /\ ui_pc' = LockPc("down")
                  /\ UNCHANGED stop_event
            [] key = "enter" ->
                  ui_pc' = LockPc("enter_select") /\ UNCHANGED <<ops, stop_event>>
            [] key = "escape" ->
                  \* _cancel: stop_event.set(); event.app.exit(result=None)
                  stop_event' = TRUE /\ ui_pc' = At("exited") /\ UNCHANGED ops
            [] key = "d" ->
                  ops < MaxOps /\ ops' = ops + 1 /\ ui_pc' = LockPc("delete_select")
                  /\ UNCHANGED stop_event
            [] key = "c" ->
                  ops < MaxOps /\ ops' = ops + 1 /\ ui_pc' = At("create_prompt")
                  /\ UNCHANGED stop_event
            [] key = "r" ->
                  ops < MaxOps /\ ops' = ops + 1 /\ ui_pc' = LockPc("rename_select")
                  /\ UNCHANGED stop_event
    /\ UNCHANGED <<screenVars, state_lock, git_worktrees, cache_rows, workerVars, OthersThanScreen,
                   ui_sel, ui_arg, obsVars>>

\* _up / _down: the cursor moves under the lock, then event.app.invalidate().
UiUp ==
    /\ ui_pc = LockPc("up")
    /\ state_lock = NOBODY
    /\ cursor' = IF cursor > 0 THEN cursor - 1 ELSE cursor
    /\ state_lock' = NOBODY
    /\ InvalidateAfterRelease("ui")
    /\ ui_pc' = At("idle")
    /\ UNCHANGED <<row_order, statuses_by_path, cached_paths, status_line, refreshing,
                   refresh_requested, stop_event, git_worktrees, cache_rows, workerVars, OthersThanScreen,
                   ui_sel, ui_arg, ops,
                   kicks_in_cycle, last_kicks, last_run_again, owed>>

UiDown ==
    /\ ui_pc = LockPc("down")
    /\ state_lock = NOBODY
    /\ cursor' = IF cursor < Len(row_order) - 1 THEN cursor + 1 ELSE cursor
    /\ state_lock' = NOBODY
    /\ InvalidateAfterRelease("ui")
    /\ ui_pc' = At("idle")
    /\ UNCHANGED <<row_order, statuses_by_path, cached_paths, status_line, refreshing,
                   refresh_requested, stop_event, git_worktrees, cache_rows, workerVars, OthersThanScreen,
                   ui_sel, ui_arg, ops,
                   kicks_in_cycle, last_kicks, last_run_again, owed>>

\* ui.py _selected_status, from the point where the lock is held.
SelectedStatus ==
    IF row_order = <<>> THEN NoStatus
    ELSE IF cursor < 0 \/ cursor >= Len(row_order) THEN NoStatus
    ELSE IF row_order[cursor + 1] \in DOMAIN statuses_by_path
         THEN statuses_by_path[row_order[cursor + 1]]
         ELSE NoStatus

\* The _selected_status() call that opens _enter, _delete and _rename.
UiSelect(name, found, missing) ==
    /\ ui_pc = LockPc(name)
    /\ state_lock = NOBODY
    /\ ui_sel' = SelectedStatus
    /\ state_lock' = NOBODY
    /\ ui_pc' = IF ui_sel' = NoStatus THEN missing ELSE found
    /\ UNCHANGED <<screenVars, stop_event, git_worktrees, cache_rows, workerVars, OthersThanScreen,
                   ui_arg, ops, obsVars>>

\* _enter: selection, stop_event.set(), event.app.exit(...)
UiEnterSelect == UiSelect("enter_select", At("enter_exit"), At("enter_exit"))

UiEnterExit ==
    /\ ui_pc = At("enter_exit")
    /\ stop_event' = TRUE
    /\ ui_pc' = At("exited")
    /\ UNCHANGED <<screenVars, state_lock, git_worktrees, cache_rows, workerVars, OthersThanScreen,
                   ui_sel, ui_arg, ops, obsVars>>

\* A _set_status call of a key handler that then returns.
UiStatusAndReturn(name, text) ==
    /\ ui_pc = LockPc(name)
    /\ SetStatus("ui", text)
    /\ ui_pc' = At("idle")
    /\ UNCHANGED <<cursor, row_order, statuses_by_path, cached_paths, refreshing,
                   refresh_requested, stop_event, git_worktrees, cache_rows, workerVars, OthersThanScreen,
                   ops,
                   kicks_in_cycle, last_kicks, last_run_again, owed>>
    /\ UiLocalsDropped

\* app.is_current_path(path)
IsCurrentPath(p) == p = CurrentPath

\* _delete: selection; the current worktree is refused; the user confirms or not.
UiDeleteSelect == UiSelect("delete_select", At("delete_check"), At("idle"))

UiDeleteCheck ==
    /\ ui_pc = At("delete_check")
    /\ IF IsCurrentPath(ui_sel.path)
       THEN ui_pc' = LockPc("delete_current") /\ UNCHANGED ui_sel
       ELSE \E confirmed \in BOOLEAN :
               IF confirmed
               THEN ui_pc' = At("delete_run") /\ UNCHANGED ui_sel
               ELSE ui_pc' = At("idle") /\ ui_sel' = NoStatus
    /\ UNCHANGED <<screenVars, state_lock, stop_event, git_worktrees, cache_rows,
                   workerVars, OthersThanScreen, ui_arg, ops, obsVars>>

UiDeleteCurrent == UiStatusAndReturn("delete_current", "Cannot delete the current worktree")

\* app.delete_worktree_and_branch(path, branch), then the check that the
\* worktree is gone from the listing.
UiDeleteRun ==
    /\ ui_pc = At("delete_run")
    /\ IF ui_sel.path \in git_worktrees
       THEN /\ git_worktrees' = git_worktrees \ {ui_sel.path}
            /\ ui_pc' = LockPc("delete_status")
       ELSE /\ UNCHANGED git_worktrees
            /\ ui_pc' = LockPc("delete_failed")
    /\ UNCHANGED <<screenVars, state_lock, stop_event, cache_rows, workerVars, OthersThanScreen,
                   ui_sel, ui_arg, ops, obsVars>>

UiDeleteFailed == UiStatusAndReturn("delete_failed", "Delete failed")

UiDeleteStatus ==
    /\ ui_pc = LockPc("delete_status")
    /\ SetStatus("ui", "Deleted")
    /\ ui_pc' = LockPc("delete_apply")
    /\ UNCHANGED <<cursor, row_order, statuses_by_path, cached_paths, refreshing,
                   refresh_requested, stop_event, git_worktrees, cache_rows, workerVars, OthersThanScreen,
                   ui_sel, ui_arg, ops,
                   kicks_in_cycle, last_kicks, last_run_again, owed>>

\* list.remove(x): the first occurrence goes.
RECURSIVE RemoveFirst(_, _)
RemoveFirst(s, x) ==
    IF s = <<>> THEN <<>>
    ELSE IF Head(s) = x THEN Tail(s)
    ELSE <<Head(s)>> \o RemoveFirst(Tail(s), x)

UiDeleteApply ==
    /\ ui_pc = LockPc("delete_apply")
    /\ state_lock = NOBODY
    /\ statuses_by_path' = MapPop(statuses_by_path, ui_sel.path)
    /\ cached_paths' = cached_paths \ {ui_sel.path}
    /\ row_order' = RemoveFirst(row_order, ui_sel.path)
    /\ state_lock' = NOBODY
    /\ ui_pc' = LockPc("delete_clamp")
    /\ UNCHANGED <<cursor, status_line, refreshing, refresh_requested, stop_event,
                   git_worktrees, cache_rows, workerVars, OthersThanScreen, ui_sel, ui_arg, ops, obsVars>>

UiDeleteClamp ==
    /\ ui_pc = LockPc("delete_clamp")
    /\ state_lock = NOBODY
    /\ cursor' = ClampedCursor(cursor, row_order)
    /\ state_lock' = NOBODY
    /\ InvalidateAfterRelease("ui")
    /\ ui_pc' = LockPc("kick")
    /\ UNCHANGED <<row_order, statuses_by_path, cached_paths, status_line, refreshing,
                   refresh_requested, stop_event, git_worktrees, cache_rows, workerVars, OthersThanScreen,
                   ui_sel, ui_arg, ops,
                   kicks_in_cycle, last_kicks, last_run_again, owed>>

\* What the user types at a prompt: the name of a branch that exists, or a new one.
TypedNames == {"a", "c"}

\* _create: the prompt yields a branch name or nothing; app.create_worktree
\* fails when the branch already exists.
UiCreatePrompt ==
    /\ ui_pc = At("create_prompt")
    /\ \E branch \in TypedNames \cup {NULL} :
          /\ ui_arg' = branch
          /\ ui_pc' = IF branch = NULL THEN At("idle") ELSE At("create_run")
    /\ UNCHANGED <<screenVars, state_lock, stop_event, git_worktrees, cache_rows,
                   workerVars, OthersThanScreen, ui_sel, ops, obsVars>>

UiCreateRun ==
    /\ ui_pc = At("create_run")
    /\ IF ui_arg \in git_worktrees
       THEN /\ UNCHANGED git_worktrees
            /\ ui_pc' = LockPc("create_failed")
       ELSE /\ git_worktrees' = git_worktrees \cup {ui_arg}
            /\ ui_pc' = LockPc("create_apply")
    /\ UNCHANGED <<screenVars, state_lock, stop_event, cache_rows, workerVars, OthersThanScreen,
                   ui_sel, ui_arg, ops, obsVars>>

UiCreateFailed == UiStatusAndReturn("create_failed", "Create failed")

UiCreateApply ==
    /\ ui_pc = LockPc("create_apply")
    /\ state_lock = NOBODY
    /\ statuses_by_path' = MapPut(statuses_by_path, ui_arg, PlaceholderStatus(ui_arg, Branch(ui_arg)))
    /\ cached_paths' = cached_paths \cup {ui_arg}
    /\ row_order' = <<ui_arg>> \o row_order
    /\ cursor' = 0
    /\ state_lock' = NOBODY
    /\ InvalidateAfterRelease("ui")
    /\ ui_pc' = LockPc("kick")
    /\ UNCHANGED <<status_line, refreshing, refresh_requested, stop_event,
                   git_worktrees, cache_rows, workerVars, OthersThanScreen, ui_sel, ui_arg, ops,
                   kicks_in_cycle, last_kicks, last_run_again, owed>>

\* _rename: selection, prompt, app.rename_worktree, then the row is re-keyed.
UiRenameSelect ==
    /\ UiSelect("rename_select", At("rename_prompt"), At("idle"))
    /\ ui_sel' # NoStatus => ui_sel'.branch # NULL

\* `if not selection.branch:` the status line says so and the handler returns.
UiRenameDetachedSelect ==
    /\ UiSelect("rename_select", LockPc("rename_detached"), At("idle"))
    /\ ui_sel' # NoStatus /\ ui_sel'.branch = NULL

UiRenameDetached == UiStatusAndReturn("rename_detached", "Cannot rename detached worktree.")

UiRenamePrompt ==
    /\ ui_pc = At("rename_prompt")
    /\ \E new_branch \in TypedNames \cup {NULL} :
          /\ ui_arg' = new_branch
          /\ ui_pc' = IF new_branch = NULL THEN At("idle") ELSE At("rename_run")
          /\ ui_sel' = IF new_branch = NULL THEN NoStatus ELSE ui_sel
    /\ UNCHANGED <<screenVars, state_lock, stop_event, git_worktrees, cache_rows,
                   workerVars, OthersThanScreen, ops, obsVars>>

UiRenameRun ==
    /\ ui_pc = At("rename_run")
    /\ IF ui_sel.path \in git_worktrees /\ ui_arg \notin git_worktrees
       THEN /\ git_worktrees' = (git_worktrees \ {ui_sel.path}) \cup {ui_arg}
            /\ ui_pc' = LockPc("rename_apply")
       ELSE /\ UNCHANGED git_worktrees
            /\ ui_pc' = LockPc("rename_failed")
    /\ UNCHANGED <<screenVars, state_lock, stop_event, cache_rows, workerVars, OthersThanScreen,
                   ui_sel, ui_arg, ops, obsVars>>

UiRenameFailed == UiStatusAndReturn("rename_failed", "Rename failed")

\* ui.py _clone_status
CloneStatus(status, path, branch) ==
    [status EXCEPT !.path = path, !.branch = branch]

\* list.index(x), zero-based, for x known to be in the list
RECURSIVE Index(_, _)
Index(s, x) == IF Head(s) = x THEN 0 ELSE 1 + Index(Tail(s), x)

UiRenameApply ==
    /\ ui_pc = LockPc("rename_apply")
    /\ state_lock = NOBODY
    /\ statuses_by_path' =
          MapPut(MapPop(statuses_by_path, ui_sel.path), ui_arg,
                 CloneStatus(ui_sel, ui_arg, Branch(ui_arg)))
    /\ cached_paths' = (cached_paths \ {ui_sel.path}) \cup {ui_arg}
    /\ IF ui_sel.path \in Range(row_order)
       THEN LET idx == Index(row_order, ui_sel.path)
            IN /\ row_order' = [row_order EXCEPT ![idx + 1] = ui_arg]
               /\ cursor' = idx
       ELSE UNCHANGED <<row_order, cursor>>
    /\ state_lock' = NOBODY
    /\ InvalidateAfterRelease("ui")
    /\ ui_pc' = LockPc("kick")
    /\ UNCHANGED <<status_line, refreshing, refresh_requested, stop_event,
                   git_worktrees, cache_rows, workerVars, OthersThanScreen, ui_sel, ui_arg, ops,
                   kicks_in_cycle, last_kicks, last_run_again, owed>>

UiStep ==
    \/ UiStart \/ KickRefresh \/ UiKey \/ UiUp \/ UiDown
    \/ UiEnterSelect \/ UiEnterExit
    \/ UiDeleteSelect \/ UiDeleteCheck \/ UiDeleteCurrent \/ UiDeleteRun
    \/ UiDeleteFailed \/ UiDeleteStatus \/ UiDeleteApply \/ UiDeleteClamp
    \/ UiCreatePrompt \/ UiCreateRun \/ UiCreateFailed \/ UiCreateApply
    \/ UiRenameSelect \/ UiRenameDetachedSelect \/ UiRenameDetached
    \/ UiRenamePrompt \/ UiRenameRun \/ UiRenameFailed \/ UiRenameApply

\* -------------------------------------------------- the worktree screen
\* The worktrees of the repository when the screen opens.
InitialWorktrees == {"a", "b"}

\* app.load_cached_statuses(): the rows a previous run left in the cache.
CachedStatuses(paths, ts) == [p \in paths |-> Status(p, Branch(p), ts[p], "cached")]

\* run_worktree_screen up to the first _kick_refresh(): the cached rows, newest
\* commit first, are shown as cached; without a cache the table is empty.
ScreenInit ==
    /\ \E ts \in CachedTsOptions :
          LET paths == DOMAIN ts
          IN /\ cache_rows = CachedStatuses(paths, ts)
             /\ statuses_by_path = cache_rows
             /\ row_order = SortedByTsDesc(FilterSeq(PathOrder, paths), ts)
             /\ cached_paths = paths
             /\ status_line = IF paths = {} THEN "Refreshing..." ELSE "Cached data"
    /\ cursor = 0
    /\ refreshing = FALSE
    /\ refresh_requested = FALSE
    /\ state_lock = NOBODY
    /\ stop_event = FALSE
    /\ git_worktrees = InitialWorktrees
    /\ w_pc = At("none")
    /\ w_worktrees = <<>>
    /\ w_error = FALSE
    /\ w_snapshot = EmptyMap
    /\ w_local = EmptyMap
    /\ w_remote = EmptyMap
    /\ w_todo = {}
    /\ w_cur = NoStatus
    /\ w_raised = {}
    /\ w_updates = NoUpdates
    /\ ui_pc = At("start")
    /\ ui_sel = NoStatus
    /\ ui_arg = NULL
    /\ ops = 0
    /\ invalidate_under_lock = FALSE
    /\ kicks_in_cycle = 0
    /\ last_kicks = 0
    /\ last_run_again = FALSE
    /\ owed = 0

\* ===================================================== cli.py: the curses TUI
MaxKeys == 3

\* git worktree list, already in the order _load_worktrees sorts it into
\* (last_commit_ts descending).
CliWorktrees == <<"b", "a">>

\* The WorktreeInfo a load builds: nothing validated yet. The three *_stage
\* fields are not in the code: they record which phases of a refresh have
\* visited the object since it was loaded ("pending", "done", or "skipped"
\* by a `continue`; a value stored by an earlier cycle stays "done").
FreshItem(p) ==
    [ path |-> p,
      pull_push_validated |-> FALSE, changes_validated |-> FALSE,
      pr_validated |-> FALSE, checks_validated |-> FALSE,
      pull_push_stage |-> "pending", changes_stage |-> "pending",
      github_stage |-> "pending" ]

RECURSIVE FreshItems(_, _)
FreshItems(paths, dirs) ==
    IF paths = <<>> THEN <<>>
    ELSE IF Head(paths) \in dirs
         THEN <<FreshItem(Head(paths))>> \o FreshItems(Tail(paths), dirs)
         ELSE FreshItems(Tail(paths), dirs)

\* cli.py _load_worktrees: one item per listed worktree whose path is a directory.
LoadWorktrees(dirs) == FreshItems(CliWorktrees, dirs)

\* cli.py _format_row, reduced to the `cached` (dimmed) flag of each Cell.
FormatRowInverted(item) ==
    [ branch |-> FALSE, last_commit |-> FALSE,
      pull_push |-> item.pull_push_validated, pr |-> ~item.pr_validated,
      behind_ahead |-> FALSE,
      changes |-> ~item.changes_validated, checks |-> ~item.checks_validated ]
FormatRow(item) ==
    [ branch |-> FALSE, last_commit |-> FALSE,
      pull_push |-> ~item.pull_push_validated, pr |-> ~item.pr_validated,
      behind_ahead |-> FALSE,
      changes |-> ~item.changes_validated, checks |-> ~item.checks_validated ]

\* What an action of cli.py leaves alone.
CliUnchangedExcept(changed) ==
    /\ ("cli_items" \in changed \/ cli_items' = cli_items)
    /\ ("cli_gen" \in changed \/ cli_gen' = cli_gen)
    /\ ("cli_dirs" \in changed \/ cli_dirs' = cli_dirs)
    /\ cli_gh' = cli_gh
    /\ ("cli_db_lock" \in changed \/ cli_db_lock' = cli_db_lock)
    /\ ("cli_state_lock" \in changed \/ cli_state_lock' = cli_state_lock)
    /\ ("cli_running" \in changed \/ cli_running' = cli_running)
    /\ ("cli_r_pc" \in changed \/ cli_r_pc' = cli_r_pc)
    /\ ("cli_r_idx" \in changed \/ cli_r_idx' = cli_r_idx)
    /\ ("cli_r_item" \in changed \/ cli_r_item' = cli_r_item)
    /\ ("cli_r_startup" \in changed \/ cli_r_startup' = cli_r_startup)
    /\ ("cli_m_pc" \in changed \/ cli_m_pc' = cli_m_pc)
    /\ ("cli_m_new" \in changed \/ cli_m_new' = cli_m_new)
    /\ ("cli_keys" \in changed \/ cli_keys' = cli_keys)
    /\ ("cli_painted" \in changed \/ cli_painted' = cli_painted)
    /\ ("cli_status" \in changed \/ cli_status' = cli_status)
    /\ ("order" \in changed
          \/ (cli_state_then_db' = cli_state_then_db /\ cli_db_then_state' = cli_db_then_state))
    /\ ("burst" \in changed
          \/ (cli_burst_presses' = cli_burst_presses /\ cli_burst_cycles' = cli_burst_cycles))
    /\ UNCHANGED OthersThanCli

\* Thread t enters `with _DB_LOCK:` / `with state_lock:`; the order in which a
\* thread that ends up holding both took them is recorded.
CliAcquire(t, lock) ==
    IF lock = "db"
    THEN /\ cli_db_lock = NOBODY
         /\ cli_db_lock' = t
         /\ cli_state_then_db' = (cli_state_then_db \/ cli_state_lock = t)
         /\ UNCHANGED <<cli_state_lock, cli_db_then_state>>
    ELSE /\ cli_state_lock = NOBODY
         /\ cli_state_lock' = t
         /\ cli_db_then_state' = (cli_db_then_state \/ cli_db_lock = t)
         /\ UNCHANGED <<cli_db_lock, cli_state_then_db>>

\* A short `with state_lock:` block of thread t, entered and left in one step.
CliStateBlock(t) ==
    /\ cli_state_lock = NOBODY
    /\ cli_state_lock' = NOBODY
    /\ cli_db_then_state' = (cli_db_then_state \/ cli_db_lock = t)
    /\ cli_state_then_db' = cli_state_then_db

\* The refresh thread's `item`: an object of some generation of the list. A
\* write reaches the list only while that generation is still the one in it.
NoItem == [gen |-> 0, idx |-> 0, path |-> NULL]

ItemAt(idx) == [gen |-> cli_gen, idx |-> idx, path |-> cli_items[idx].path]

InList(ref) == ref.gen = cli_gen /\ ref.idx <= Len(cli_items)

\* `for item in items:` — the list iterator yields items[idx] of whatever the
\* list holds now, or ends the loop.
HasNext == cli_r_idx < Len(cli_items)

\* ------------------------------------------- cli.py _refresh_from_upstream
\* The order in which the first block takes its two locks:
\* `with _DB_LOCK:` ... `with state_lock:`.
Phase1LocksStateFirst == <<"state", "db">>
Phase1Locks == <<"db", "state">>

\* _try_run_git(["fetch", "--prune"])
CliFetch ==
    /\ cli_r_pc = "fetch"
    /\ cli_r_pc' = "p1_lock1"
    /\ CliUnchangedExcept({"cli_r_pc"})

CliP1Lock1 ==
    /\ cli_r_pc = "p1_lock1"
    /\ CliAcquire("refresh", Phase1Locks[1])
    /\ cli_r_pc' = "p1_lock2"
    /\ CliUnchangedExcept({"cli_r_pc", "cli_db_lock", "cli_state_lock", "order"})

CliP1Lock2 ==
    /\ cli_r_pc = "p1_lock2"
    /\ CliAcquire("refresh", Phase1Locks[2])
    /\ cli_r_pc' = "p1_next"
    /\ cli_r_idx' = 0
    /\ CliUnchangedExcept({"cli_r_pc", "cli_r_idx", "cli_db_lock", "cli_state_lock", "order"})

\* The loop over the items, all of it inside `with state_lock:`; when it ends
\* the state lock is released.
CliP1Next ==
    /\ cli_r_pc = "p1_next"
    /\ IF HasNext
       THEN /\ cli_r_item' = ItemAt(cli_r_idx + 1)
            /\ cli_r_idx' = cli_r_idx + 1
            /\ cli_r_pc' = "p1_probe"
            /\ UNCHANGED cli_state_lock
       ELSE /\ cli_r_item' = NoItem
            /\ cli_r_idx' = 0
            /\ cli_r_pc' = "p1_commit"
            /\ cli_state_lock' = NOBODY
    /\ CliUnchangedExcept({"cli_r_pc", "cli_r_idx", "cli_r_item", "cli_state_lock"})

\* git rev-parse <ref>@{upstream} and _count_ahead_behind: child processes.
CliP1Probe ==
    /\ cli_r_pc = "p1_probe"
    /\ cli_r_pc' = "p1_store"
    /\ CliUnchangedExcept({"cli_r_pc"})

\* item.pull, item.push, item.has_upstream, item.pull_push_validated = True
\* and the row's INSERT.
CliP1Store ==
    /\ cli_r_pc = "p1_store"
    /\ cli_items' =
          IF InList(cli_r_item)
          THEN [cli_items EXCEPT ![cli_r_item.idx] =
                   [@ EXCEPT !.pull_push_validated = TRUE, !.pull_push_stage = "done"]]
          ELSE cli_items
    /\ cli_r_pc' = "p1_next"
    /\ CliUnchangedExcept({"cli_r_pc", "cli_items"})

\* conn.commit(); conn.close(); the first `with _DB_LOCK:` ends.
CliP1Commit ==
    /\ cli_r_pc = "p1_commit"
    /\ cli_db_lock' = NOBODY
    /\ cli_r_pc' = "p2_lock"
    /\ CliUnchangedExcept({"cli_r_pc", "cli_db_lock"})

\* The second `with _DB_LOCK:`.
CliP2Lock ==
    /\ cli_r_pc = "p2_lock"
    /\ CliAcquire("refresh", "db")
    /\ cli_r_pc' = "p2_next"
    /\ cli_r_idx' = 0
    /\ CliUnchangedExcept({"cli_r_pc", "cli_r_idx", "cli_db_lock", "cli_state_lock", "order"})

\* The loop over the items, not under the state lock; an item whose path is
\* no directory is passed over; when the loop ends the cache lock is released
\* and, without gh, the function returns.
CliP2Next ==
    /\ cli_r_pc = "p2_next"
    /\ IF HasNext
       THEN LET ref == ItemAt(cli_r_idx + 1)
            IN /\ cli_r_idx' = cli_r_idx + 1
               /\ IF ref.path \in cli_dirs
                  THEN /\ cli_r_item' = ref
                       /\ cli_r_pc' = "p2_diff"
                       /\ UNCHANGED cli_items
                  ELSE /\ cli_r_item' = NoItem
                       /\ cli_r_pc' = "p2_next"
                       /\ cli_items' = [cli_items EXCEPT ![ref.idx] =
                                           [@ EXCEPT !.changes_stage =
                                                IF @ = "done" THEN "done" ELSE "skipped"]]
               /\ UNCHANGED cli_db_lock
       ELSE /\ cli_r_item' = NoItem
            /\ cli_r_idx' = 0
            /\ cli_db_lock' = NOBODY
            /\ cli_r_pc' = IF cli_gh THEN "gh_next" ELSE "end"
            /\ UNCHANGED cli_items
    /\ CliUnchangedExcept({"cli_r_pc", "cli_r_idx", "cli_r_item", "cli_items", "cli_db_lock"})

\* _diff_counts(item.path): child processes.
CliP2Diff ==
    /\ cli_r_pc = "p2_diff"
    /\ cli_r_pc' = "p2_store"
    /\ CliUnchangedExcept({"cli_r_pc"})

\* `with state_lock:` additions, deletions, dirty, changes_validated = True;
\* then the row's INSERT.
CliP2Store ==
    /\ cli_r_pc = "p2_store"
    /\ CliStateBlock("refresh")
    /\ cli_items' =
          IF InList(cli_r_item)
          THEN [cli_items EXCEPT ![cli_r_item.idx] =
                   [@ EXCEPT !.changes_validated = TRUE, !.changes_stage = "done"]]
          ELSE cli_items
    /\ cli_r_pc' = "p2_next"
    /\ CliUnchangedExcept({"cli_r_pc", "cli_items", "cli_state_lock", "order"})

\* The loop of the gh part, not under any lock.
CliGhNext ==
    /\ cli_r_pc = "gh_next"
    /\ IF HasNext
       THEN /\ cli_r_item' = ItemAt(cli_r_idx + 1)
            /\ cli_r_idx' = cli_r_idx + 1
            /\ cli_r_pc' = "gh_probe"
       ELSE /\ cli_r_item' = NoItem
            /\ cli_r_idx' = 0
            /\ cli_r_pc' = "end"
    /\ CliUnchangedExcept({"cli_r_pc", "cli_r_idx", "cli_r_item"})

\* gh pr list and, with a pull request, gh pr view: child processes.
CliGhProbe ==
    /\ cli_r_pc = "gh_probe"
    /\ cli_r_pc' = "gh_store"
    /\ CliUnchangedExcept({"cli_r_pc"})

\* `with state_lock:` the pr_* and checks_* fields, pr_validated and
\* checks_validated = True.
CliGhStore ==
    /\ cli_r_pc = "gh_store"
    /\ CliStateBlock("refresh")
    /\ cli_items' =
          IF InList(cli_r_item)
          THEN [cli_items EXCEPT ![cli_r_item.idx] =
                   [@ EXCEPT !.pr_validated = TRUE, !.checks_validated = TRUE,
                             !.github_stage = "done"]]
          ELSE cli_items
    /\ cli_r_pc' = "gh_db"
    /\ CliUnchangedExcept({"cli_r_pc", "cli_items", "cli_state_lock", "order"})

\* `with _DB_LOCK:` the row's INSERT, commit, close.
CliGhDb ==
    /\ cli_r_pc = "gh_db"
    /\ cli_db_lock = NOBODY
    /\ cli_state_then_db' = (cli_state_then_db \/ cli_state_lock = "refresh")
    /\ cli_db_then_state' = cli_db_then_state
    /\ cli_r_pc' = "gh_next"
    /\ CliUnchangedExcept({"cli_r_pc", "order"})

\* The thread ends. One started by _start_refresh_thread clears "running" in
\* its finally clause; for the one main() started, _refresh_done_watcher does
\* it after the join.
CliRefreshEnd ==
    /\ cli_r_pc = "end"
    /\ IF cli_r_startup
       THEN cli_r_pc' = "joined" /\ UNCHANGED cli_running
       ELSE cli_r_pc' = "none" /\ cli_running' = FALSE
    /\ CliUnchangedExcept({"cli_r_pc", "cli_running"})

CliWatcher ==
    /\ cli_r_pc = "joined"
    /\ cli_running' = FALSE
    /\ cli_r_startup' = FALSE
    /\ cli_r_pc' = "none"
    /\ CliUnchangedExcept({"cli_r_pc", "cli_running", "cli_r_startup"})

CliRefreshStep ==
    \/ CliFetch \/ CliP1Lock1 \/ CliP1Lock2 \/ CliP1Next \/ CliP1Probe \/ CliP1Store
    \/ CliP1Commit \/ CliP2Lock \/ CliP2Next \/ CliP2Diff \/ CliP2Store
    \/ CliGhNext \/ CliGhProbe \/ CliGhStore \/ CliGhDb \/ CliRefreshEnd \/ CliWatcher

\* ------------------------------------------------- cli.py _run_tui (_inner)
\* `if refresh_state.get("running"): return`
StartsRefreshAlways(running) == TRUE
StartsRefresh(running) == ~running

\* The top of the key loop: row_count under the lock, then _render, which
\* formats the rows under the lock.
CliRender ==
    /\ cli_m_pc = "render"
    /\ CliStateBlock("main")
    /\ cli_painted' = cli_items
    /\ cli_m_pc' = "getch"
    /\ CliUnchangedExcept({"cli_m_pc", "cli_painted", "cli_state_lock", "order"})

\* stdscr.getch() times out, or returns q, r or p.
CliGetch ==
    /\ cli_m_pc = "getch"
    /\ \E ch \in {"timeout", "q", "r", "p"} :
          CASE ch = "timeout" ->
                  /\ cli_m_pc' = "render"
                  /\ UNCHANGED <<cli_keys, cli_running, cli_r_pc, cli_burst_presses,
                                 cli_burst_cycles, cli_status>>
            [] ch = "q" ->
                  /\ cli_m_pc' = "exited"
                  /\ UNCHANGED <<cli_keys, cli_running, cli_r_pc, cli_burst_presses,
                                 cli_burst_cycles, cli_status>>
            [] ch = "r" ->
                  \* status_line = "Refreshing..."; _start_refresh_thread()
                  /\ cli_keys < MaxKeys
                  /\ cli_keys' = cli_keys + 1
                  /\ cli_m_pc' = "render"
                  /\ cli_status' = "Refreshing..."
                  /\ LET starts == StartsRefresh(cli_running)
                         started == IF starts THEN 1 ELSE 0
                         in_burst == cli_running /\ cli_burst_presses >= 1
                     IN /\ IF starts
                           THEN cli_running' = TRUE /\ cli_r_pc' = "fetch"
                           ELSE UNCHANGED <<cli_running, cli_r_pc>>
                        \* a burst: the press that finds no refresh running
                        \* and the presses that arrive while its cycle runs
                        /\ cli_burst_presses' =
                              IF in_burst THEN cli_burst_presses + 1
                              ELSE IF cli_running THEN 0 ELSE 1
                        /\ cli_burst_cycles' =
                              IF in_burst THEN cli_burst_cycles + started
                              ELSE IF cli_running THEN 0 ELSE started
            [] ch = "p" ->
                  \* git pull in a thread of its own, the spinner meanwhile
                  /\ cli_keys < MaxKeys
                  /\ cli_keys' = cli_keys + 1
                  /\ IF cli_items = <<>>
                     THEN /\ cli_status' = "No worktrees available."
                          /\ cli_m_pc' = "render"
                     ELSE /\ cli_status' = cli_status
                          /\ cli_m_pc' = "pull_wait"
                  /\ UNCHANGED <<cli_running, cli_r_pc, cli_burst_presses, cli_burst_cycles>>
    /\ CliUnchangedExcept({"cli_m_pc", "cli_keys", "cli_running", "cli_r_pc", "burst",
                           "cli_status"})

\* _run_with_spinner: while the pull runs the status line carries the
\* spinner and the rows are painted again.
CliSpinnerRender ==
    /\ cli_m_pc = "pull_wait"
    /\ CliStateBlock("main")
    /\ cli_status' = "Pulling"
    /\ cli_painted' = cli_items
    /\ CliUnchangedExcept({"cli_painted", "cli_status", "cli_state_lock", "order"})

\* The pull is over: the error text goes to the status line, or the success
\* message does and _reload_items follows.
CliPullDone ==
    /\ cli_m_pc = "pull_wait"
    /\ \E failed \in BOOLEAN :
          /\ cli_status' = IF failed THEN "Pull failed: stderr" ELSE "Pulled"
          /\ cli_m_pc' = IF failed THEN "render" ELSE "reload_lock"
    /\ CliUnchangedExcept({"cli_m_pc", "cli_status"})

\* _reload_items: _load_worktrees takes _DB_LOCK, builds the new items and
\* releases it; then the list is cleared and refilled under the state lock.
CliReloadLock ==
    /\ cli_m_pc = "reload_lock"
    /\ CliAcquire("main", "db")
    /\ cli_m_pc' = "reload_load"
    /\ CliUnchangedExcept({"cli_m_pc", "cli_db_lock", "cli_state_lock", "order"})

CliReloadLoad ==
    /\ cli_m_pc = "reload_load"
    /\ cli_m_new' = LoadWorktrees(cli_dirs)
    /\ cli_db_lock' = NOBODY
    /\ cli_m_pc' = "reload_swap"
    /\ CliUnchangedExcept({"cli_m_pc", "cli_m_new", "cli_db_lock"})

CliReloadSwap ==
    /\ cli_m_pc = "reload_swap"
    /\ CliStateBlock("main")
    /\ cli_items' = cli_m_new
    /\ cli_gen' = cli_gen + 1
    /\ cli_m_new' = <<>>
    /\ cli_m_pc' = "render"
    /\ CliUnchangedExcept({"cli_m_pc", "cli_items", "cli_gen", "cli_m_new",
                           "cli_state_lock", "order"})

\* Outside the program: the directory of worktree b is removed.
CliDirRemoved ==
    /\ "b" \in cli_dirs
    /\ cli_m_pc # "exited"
    /\ cli_dirs' = cli_dirs \ {"b"}
    /\ CliUnchangedExcept({"cli_dirs"})

CliMainStep ==
    \/ CliRender \/ CliGetch \/ CliSpinnerRender \/ CliPullDone
    \/ CliReloadLock \/ CliReloadLoad \/ CliReloadSwap \/ CliDirRemoved

\* The front end is not running.
CliOff ==
    /\ cli_items = <<>> /\ cli_gen = 0 /\ cli_dirs = {} /\ cli_gh = FALSE
    /\ cli_db_lock = NOBODY /\ cli_state_lock = NOBODY /\ cli_running = FALSE
    /\ cli_r_pc = "none" /\ cli_r_idx = 0 /\ cli_r_item = NoItem
    /\ cli_r_startup = FALSE
    /\ cli_m_pc = "off" /\ cli_m_new = <<>> /\ cli_keys = 0 /\ cli_painted = <<>>
    /\ cli_status = NULL
    /\ cli_state_then_db = FALSE /\ cli_db_then_state = FALSE
    /\ cli_burst_presses = 0 /\ cli_burst_cycles = 0

\* main() up to the call of _run_tui: the items are loaded, the first refresh
\* thread is started with "running" set, gh is installed or not.
CliInit ==
    /\ cli_dirs = Range(CliWorktrees)
    /\ cli_items = LoadWorktrees(cli_dirs)
    /\ cli_gen = 0
    /\ cli_gh \in BOOLEAN
    /\ cli_db_lock = NOBODY /\ cli_state_lock = NOBODY
    /\ cli_running = TRUE
    /\ cli_r_pc = "fetch" /\ cli_r_idx = 0 /\ cli_r_item = NoItem
    /\ cli_r_startup = TRUE
    /\ cli_m_pc = "render" /\ cli_m_new = <<>> /\ cli_keys = 0 /\ cli_painted = <<>>
    /\ cli_status = NULL
    /\ cli_state_then_db = FALSE /\ cli_db_then_state = FALSE
    /\ cli_burst_presses = 0 /\ cli_burst_cycles = 0

\* ================================ tui.py, services.py, cache_db.py: Textual
\* What an action of this front end leaves alone.
TuiUnchangedExcept(changed) ==
    /\ ("tui_db_lock" \in changed \/ tui_db_lock' = tui_db_lock)
    /\ tui_state_lock' = tui_state_lock
    /\ ("tui_running" \in changed \/ tui_running' = tui_running)
    /\ ("tui_busy" \in changed \/ tui_busy' = tui_busy)
    /\ ("tui_status" \in changed \/ tui_status' = tui_status)
    /\ ("tui_pc" \in changed \/ tui_pc' = tui_pc)
    /\ ("tui_r_pc" \in changed \/ tui_r_pc' = tui_r_pc)
    /\ ("tui_op_pc" \in changed \/ tui_op_pc' = tui_op_pc)
    /\ ("tui_keys" \in changed \/ tui_keys' = tui_keys)
    /\ ("tui_op" \in changed \/ tui_op' = tui_op)
    /\ ("git" \in changed
          \/ (tui_branches' = tui_branches /\ tui_wt' = tui_wt /\ tui_dirs' = tui_dirs))
    /\ ("cache" \in changed \/ (tui_cache' = tui_cache /\ tui_life' = tui_life))
    /\ UNCHANGED OthersThanTui

\* cache_db.get_db_lock(): the module's _DB_LOCK, a threading.Lock.
GetDbLock == tui_db_lock

\* The items the app was started with: path and ref_name of each row. The
\* list is replaced only by _reload_items.
TuiItems == {"a", "b"}

\* No operation.
NoOp == [kind |-> "none", path |-> NULL, new |-> NULL]

\* What the user types into a TextInputScreen: nothing, a name git rejects,
\* the name of a branch that exists, a new name, another new name.
TuiTyped == {NULL, "?", "b", "c", "d"}

\* git_ops.is_valid_branch_name (git check-ref-format --branch)
IsValidBranchName(name) == name # "?"

\* TuiApp._tick: the spinner text while an operation runs, then
\* _populate_table, which copies the items under the state lock.
TuiTick ==
    /\ tui_pc = "idle"
    /\ tui_state_lock = NOBODY
    /\ tui_status' = IF tui_busy THEN "spinner" ELSE tui_status
    /\ TuiUnchangedExcept({"tui_status"})

\* The runner thread is started whatever _busy says.
RunActionUnchecked(op) ==
    /\ tui_busy' = TRUE
    /\ tui_op_pc' = "running"
    /\ tui_op' = op
    /\ UNCHANGED tui_status

\* TuiApp._run_action_with_spinner up to the start of the runner thread.
RunActionWithSpinner(op) ==
    IF tui_busy
    THEN /\ tui_status' = "Another operation is in progress."
         /\ UNCHANGED <<tui_busy, tui_op_pc, tui_op>>
    ELSE /\ tui_busy' = TRUE
         /\ tui_op_pc' = "running"
         /\ tui_op' = op
         /\ UNCHANGED tui_status

\* A key binding fires: quit, action_refresh (with _start_refresh_thread) or
\* action_pull_worktree (with _run_action_with_spinner).
TuiKey ==
    /\ tui_pc = "idle"
    /\ \E ch \in {"q", "r", "p"} :
          CASE ch = "q" ->
                  /\ tui_pc' = "exited"
                  /\ UNCHANGED <<tui_keys, tui_status, tui_running, tui_r_pc, tui_busy,
                                 tui_op_pc, tui_op>>
            [] ch = "r" ->
                  /\ tui_keys < MaxKeys
                  /\ tui_keys' = tui_keys + 1
                  /\ IF tui_busy
                     THEN /\ tui_status' = "Another operation is in progress."
                          /\ UNCHANGED <<tui_running, tui_r_pc>>
                     ELSE IF tui_running
                          THEN /\ tui_status' = "Refresh already in progress..."
                               /\ UNCHANGED <<tui_running, tui_r_pc>>
                          ELSE /\ tui_status' = "Refreshing..."
                               /\ tui_running' = TRUE
                               /\ tui_r_pc' = "fetch"
                  /\ UNCHANGED <<tui_pc, tui_busy, tui_op_pc, tui_op>>
            [] ch = "p" ->
                  /\ tui_keys < MaxKeys
                  /\ tui_keys' = tui_keys + 1
                  /\ \E current \in TuiItems :
                        RunActionWithSpinner([kind |-> "pull", path |-> current, new |-> NULL])
                  /\ UNCHANGED <<tui_pc, tui_running, tui_r_pc>>
    /\ TuiUnchangedExcept({"tui_pc", "tui_keys", "tui_status", "tui_running", "tui_r_pc",
                           "tui_busy", "tui_op_pc", "tui_op"})

\* action_rename_worktree: the modal, the checks of the name, then
\* _run_action_with_spinner with do_rename.
TuiRename ==
    /\ tui_pc = "idle"
    /\ tui_keys < MaxKeys
    /\ tui_keys' = tui_keys + 1
    /\ \E current \in TuiItems, new_branch \in TuiTyped :
          IF new_branch = NULL
          THEN tui_status' = "Rename cancelled." /\ UNCHANGED <<tui_busy, tui_op_pc, tui_op>>
          ELSE IF ~IsValidBranchName(new_branch)
          THEN tui_status' = "Invalid branch name." /\ UNCHANGED <<tui_busy, tui_op_pc, tui_op>>
          ELSE IF new_branch \in tui_branches
          THEN tui_status' = "Branch already exists." /\ UNCHANGED <<tui_busy, tui_op_pc, tui_op>>
          ELSE RunActionWithSpinner([kind |-> "rename", path |-> current, new |-> new_branch])
    /\ TuiUnchangedExcept({"tui_keys", "tui_status", "tui_busy", "tui_op_pc", "tui_op"})

\* action_new_worktree: the modal, the checks of the name and of the target
\* path, then _run_action_with_spinner with do_create.
TuiCreate ==
    /\ tui_pc = "idle"
    /\ tui_keys < MaxKeys
    /\ tui_keys' = tui_keys + 1
    /\ \E new_branch \in TuiTyped :
          IF new_branch = NULL
          THEN tui_status' = "Create cancelled." /\ UNCHANGED <<tui_busy, tui_op_pc, tui_op>>
          ELSE IF ~IsValidBranchName(new_branch)
          THEN tui_status' = "Invalid branch name." /\ UNCHANGED <<tui_busy, tui_op_pc, tui_op>>
          ELSE IF new_branch \in tui_branches
          THEN tui_status' = "Branch already exists locally."
               /\ UNCHANGED <<tui_busy, tui_op_pc, tui_op>>
          ELSE IF new_branch \in tui_dirs
          THEN tui_status' = "Target worktree path already exists."
               /\ UNCHANGED <<tui_busy, tui_op_pc, tui_op>>
          ELSE RunActionWithSpinner([kind |-> "create", path |-> NULL, new |-> new_branch])
    /\ TuiUnchangedExcept({"tui_keys", "tui_status", "tui_busy", "tui_op_pc", "tui_op"})

\* git branch -m old new: refused when old is no branch or new is one.
BranchRenameOk(branches, old, new) == old \in branches /\ new \notin branches

\* git worktree move path new_path: refused when the target exists.
WorktreeMoveOk(wt, dirs, path, new_path) == path \in DOMAIN wt /\ new_path \notin dirs

\* do_rename: git_ops.branch_rename, then git_ops.worktree_move; the first
\* command that fails raises. The value is the repository afterwards and
\* whether the action raised.
DoRename(op) ==
    LET old == op.path
        renamed == [p \in DOMAIN tui_wt |-> IF tui_wt[p] = old THEN op.new ELSE tui_wt[p]]
    IN IF ~BranchRenameOk(tui_branches, old, op.new)
       THEN [branches |-> tui_branches, wt |-> tui_wt, dirs |-> tui_dirs, raised |-> TRUE]
       ELSE IF ~WorktreeMoveOk(renamed, tui_dirs, op.path, op.new)
       THEN [branches |-> (tui_branches \ {old}) \cup {op.new}, wt |-> renamed,
             dirs |-> tui_dirs, raised |-> TRUE]
       ELSE [branches |-> (tui_branches \ {old}) \cup {op.new},
             wt |-> [p \in (DOMAIN renamed \ {op.path}) \cup {op.new} |->
                        IF p = op.new THEN op.new ELSE renamed[p]],
             dirs |-> (tui_dirs \ {op.path}) \cup {op.new},
             raised |-> FALSE]

\* do_create for a branch with no remote: git worktree add -b.
DoCreate(op) ==
    IF op.new \in tui_branches \/ op.new \in tui_dirs
    THEN [branches |-> tui_branches, wt |-> tui_wt, dirs |-> tui_dirs, raised |-> TRUE]
    ELSE [branches |-> tui_branches \cup {op.new},
          wt |-> [p \in DOMAIN tui_wt \cup {op.new} |->
                     IF p = op.new THEN op.new ELSE tui_wt[p]],
          dirs |-> tui_dirs \cup {op.new},
          raised |-> FALSE]

\* The operation's thread: the action returns or raises, and _finish_action
\* is handed to the event loop with call_from_thread.
TuiOpDone ==
    /\ tui_op_pc = "running"
    /\ CASE tui_op.kind = "pull" ->
               /\ \E failed \in BOOLEAN :
                     tui_op_pc' = IF failed THEN "finish_failed" ELSE "finish_ok"
               /\ UNCHANGED <<tui_branches, tui_wt, tui_dirs>>
         [] tui_op.kind \in {"rename", "create"} ->
               LET after == IF tui_op.kind = "rename" THEN DoRename(tui_op)
                            ELSE DoCreate(tui_op)
               IN /\ tui_branches' = after.branches
                  /\ tui_wt' = after.wt
                  /\ tui_dirs' = after.dirs
                  /\ tui_op_pc' = IF after.raised THEN "finish_failed" ELSE "finish_ok"
    /\ TuiUnchangedExcept({"tui_op_pc", "git"})

\* The messages _run_action_with_spinner is called with.
SuccessMessage(kind) ==
    CASE kind = "pull" -> "Pulled" [] kind = "rename" -> "Renamed" [] kind = "create" -> "Created"
      [] kind = "delete" -> "Deleted"

FailurePrefix(kind) ==
    CASE kind = "pull" -> "Pull failed" [] kind = "rename" -> "Rename failed"
      [] kind = "create" -> "Create failed" [] kind = "delete" -> "Delete failed"

\* `if not succeeded: return`
ReloadsAlways(succeeded) == TRUE
ReloadsAfter(succeeded) == succeeded

\* TuiApp._finish_action on the event loop: after a success _reload_items
\* runs, which calls services.load_worktrees.
TuiFinishAction ==
    /\ tui_pc = "idle"
    /\ tui_op_pc \in {"finish_failed", "finish_ok"}
    /\ tui_busy' = FALSE
    /\ tui_op' = NoOp
    /\ tui_status' = IF tui_op_pc = "finish_ok" THEN SuccessMessage(tui_op.kind)
                     ELSE FailurePrefix(tui_op.kind) \o ": stderr"
    /\ IF ReloadsAfter(tui_op_pc = "finish_ok")
       THEN /\ tui_pc' = "load_get_db_lock"
            /\ tui_op_pc' = "in_call_from_thread"
       ELSE /\ tui_pc' = "idle"
            /\ tui_op_pc' = "none"
    /\ TuiUnchangedExcept({"tui_busy", "tui_status", "tui_pc", "tui_op_pc", "tui_op"})

\* services.refresh_pull_push: git_ops.fetch_prune, a child process.
TuiFetchPrune ==
    /\ tui_r_pc = "fetch"
    /\ tui_r_pc' = "pp_get_db_lock"
    /\ TuiUnchangedExcept({"tui_r_pc"})

\* threading.Lock.acquire on _DB_LOCK, by `with get_db_lock():` and then by
\* CacheDB.__enter__, in services.load_worktrees (event loop) and in
\* services.refresh_pull_push (refresh thread). The lock is not reentrant.
TuiDbAcquire ==
    /\ GetDbLock = NOBODY
    /\ \/ /\ tui_pc = "load_get_db_lock"
          /\ tui_pc' = "load_cache_db_enter"
          /\ tui_db_lock' = "tui"
          /\ UNCHANGED tui_r_pc
       \/ /\ tui_pc = "load_cache_db_enter"
          /\ tui_pc' = "load_body"
          /\ tui_db_lock' = "tui"
          /\ UNCHANGED tui_r_pc
       \/ /\ tui_r_pc = "pp_get_db_lock"
          /\ tui_r_pc' = "pp_cache_db_enter"
          /\ tui_db_lock' = "refresh"
          /\ UNCHANGED tui_pc
       \/ /\ tui_r_pc = "pp_cache_db_enter"
          /\ tui_r_pc' = "pp_body"
          /\ tui_db_lock' = "refresh"
          /\ UNCHANGED tui_pc
    /\ TuiUnchangedExcept({"tui_pc", "tui_r_pc", "tui_db_lock"})

TuiStep ==
    \/ TuiTick \/ TuiKey \/ TuiRename \/ TuiCreate \/ TuiOpDone \/ TuiFinishAction
    \/ TuiFetchPrune \/ TuiDbAcquire

\* The front end is not running.
TuiOff ==
    /\ tui_db_lock = NOBODY /\ tui_state_lock = NOBODY
    /\ tui_running = FALSE /\ tui_busy = FALSE /\ tui_status = ""
    /\ tui_pc = "off" /\ tui_r_pc = "none" /\ tui_op_pc = "none" /\ tui_keys = 0
    /\ tui_op = NoOp
    /\ tui_branches = {} /\ tui_wt = EmptyMap /\ tui_dirs = {}
    /\ tui_cache = {} /\ tui_life = <<>>

\* run_tui: the app is constructed and mounted; no refresh runs yet. The
\* repository has the worktrees a and b on their branches, and maybe a
\* directory c that is no worktree.
TuiInit ==
    /\ tui_db_lock = NOBODY /\ tui_state_lock = NOBODY
    /\ tui_running = FALSE /\ tui_busy = FALSE /\ tui_status = ""
    /\ tui_pc = "idle" /\ tui_r_pc = "none" /\ tui_op_pc = "none" /\ tui_keys = 0
    /\ tui_op = NoOp
    /\ tui_branches = TuiItems
    /\ tui_wt = [p \in TuiItems |-> p]
    /\ \E stray \in SUBSET {"c"} : tui_dirs = TuiItems \cup stray
    /\ tui_cache = TuiItems /\ tui_life = <<>>

\* ------------------------------------------------- app.py: status stages
\* The largest count a git probe reports here (commits ahead or behind,
\* lines added or deleted).
MaxCount == 1

Counts == 0..MaxCount

\* Optional[int]: None is the empty tuple, the integer n is <<n>>.
NoInt == <<>>

Some(n) == <<n>>

\* git.get_default_branch
DefaultBranch == "master"

\* The refs `git rev-parse --verify` may know, the base branch of the pull
\* request of the branch (NULL: no pull request), the upstream of the branch.
RefNames == {"main", "master", "origin/dev"}

PrBases == {NULL, "dev"}

Upstreams == {NULL, "origin/a"}

\* What the git subprocesses of one call answer: whether one of them raises
\* what the builder does not catch (get_last_commit_ts failing, a count that
\* is no integer), the upstream, rev-list's counts or a GitError, the refs
\* that resolve, diff's counts or a GitError, the pull request's base.
GitAnswers ==
    [ crash : BOOLEAN, upstream : Upstreams,
      ab_ok : BOOLEAN, left : Counts, right : Counts,
      refs : SUBSET RefNames,
      diff_ok : BOOLEAN, added : Counts, deleted : Counts,
      pr_base : PrBases ]

\* `a or b` of Python on two Optional[str].
OrElse(a, b) == IF a # NULL THEN a ELSE b

\* git.resolve_ref: the ref itself when rev-parse verifies it, else None.
ResolveRef(refs, ref) == IF ref \in refs THEN ref ELSE NULL

\* target_label of the three builders; the local build passes no pr_base.
TargetLabel(refs, pr_base) ==
    OrElse(pr_base, IF ResolveRef(refs, "main") # NULL THEN "main" ELSE DefaultBranch)

TargetRef(refs, label) ==
    OrElse(ResolveRef(refs, label),
           OrElse(ResolveRef(refs, "origin/" \o label), ResolveRef(refs, DefaultBranch)))

\* App._placeholder_status and _placeholder_status of ui.py, with the fields
\* the builders compute.
PlaceholderFields(branch) ==
    [ branch |-> branch, upstream |-> NULL, ahead |-> NoInt, behind |-> NoInt,
      pr_base |-> NULL,
      changes_added |-> NoInt, changes_deleted |-> NoInt, changes_target |-> NULL ]

\* App._build_local_status, when get_last_commit_ts does not raise: every
\* field starts from None; the pull request's fields come from base.
BuildLocalStatus(branch, base, git) ==
    LET upstream == IF branch # NULL THEN git.upstream ELSE NULL
        probed == branch # NULL /\ upstream # NULL /\ git.ab_ok
        label == TargetLabel(git.refs, NULL)
        diffed == branch # NULL /\ TargetRef(git.refs, label) # NULL /\ git.diff_ok
    IN  [ branch |-> branch, upstream |-> upstream,
          ahead |-> IF probed THEN Some(git.left) ELSE NoInt,
          behind |-> IF probed THEN Some(git.right) ELSE NoInt,
          pr_base |-> base.pr_base,
          changes_added |-> IF diffed THEN Some(git.added) ELSE NoInt,
          changes_deleted |-> IF diffed THEN Some(git.deleted) ELSE NoInt,
          changes_target |-> IF diffed THEN label ELSE NULL ]

\* ahead and behind of _apply_remote_updates after rev-list raised a GitError.
AheadOnly(status) == <<NoInt, status.behind>>

AheadBehindOnError(status) == <<NoInt, NoInt>>

\* App._apply_remote_updates: every field starts from the status passed in.
ApplyRemoteUpdates(status, branch, git) ==
    LET pr_base == IF branch # NULL THEN git.pr_base ELSE NULL
        upstream == status.upstream
        probe == branch # NULL /\ upstream # NULL
        label == TargetLabel(git.refs, pr_base)
        diff == branch # NULL /\ TargetRef(git.refs, label) # NULL
    IN  [ branch |-> status.branch, upstream |-> upstream,
          ahead |-> IF probe
                    THEN (IF git.ab_ok THEN Some(git.left) ELSE AheadBehindOnError(status)[1])
                    ELSE status.ahead,
          behind |-> IF probe
                     THEN (IF git.ab_ok THEN Some(git.right) ELSE AheadBehindOnError(status)[2])
                     ELSE status.behind,
          pr_base |-> pr_base,
          changes_added |-> IF diff THEN (IF git.diff_ok THEN Some(git.added) ELSE NoInt)
                            ELSE status.changes_added,
          changes_deleted |-> IF diff THEN (IF git.diff_ok THEN Some(git.deleted) ELSE NoInt)
                              ELSE status.changes_deleted,
          \* the except clause of the diff resets the two counts only
          changes_target |-> IF diff /\ git.diff_ok THEN label ELSE status.changes_target ]

\* _refresh_statuses_local_stream for the worktree: the status built from the
\* current one, or a placeholder when the build raised.
StLocal ==
    /\ st_stage \in {"init", "remote"}
    /\ \E git \in GitAnswers :
          st_status' = IF git.crash THEN PlaceholderFields(st_branch)
                       ELSE BuildLocalStatus(st_branch, st_status, git)
    /\ st_stage' = "local"
    /\ UNCHANGED st_branch
    /\ UNCHANGED OthersThanStatus

\* _refresh_statuses_remote_stream for the worktree: the local status with
\* the remote updates applied, or the local status when that raised.
StRemote ==
    /\ st_stage = "local"
    /\ \E git \in GitAnswers :
          st_status' = IF git.crash THEN st_status
                       ELSE ApplyRemoteUpdates(st_status, st_branch, git)
    /\ st_stage' = "remote"
    /\ UNCHANGED st_branch
    /\ UNCHANGED OthersThanStatus

StStep == StLocal \/ StRemote

StOff ==
    /\ st_branch = NULL /\ st_status = PlaceholderFields(NULL) /\ st_stage = "off"

\* The worker has put the placeholder of a worktree it has no status for.
StInit ==
    /\ st_branch \in {NULL, "a"}
    /\ st_status = PlaceholderFields(st_branch)
    /\ st_stage = "init"

\* ------------------------- services.py, gh_ops.py, cache_db.py: checks
\* The most checks a pull request's statusCheckRollup lists here.
MaxChecks == 2

\* What a rollup entry carries under "conclusion" and under "state".
Conclusions == {NULL, "SUCCESS", "NEUTRAL", "SKIPPED", "FAILURE"}

CheckStates == {NULL, "", "COMPLETED", "IN_PROGRESS"}

Rollups ==
    UNION { [1..n -> [conclusion : Conclusions, state : CheckStates]] : n \in 0..MaxChecks }

\* The worktree's branch as parse_worktrees reports it, and its head.
GhBranches == {"", "(detached)", "main"}

GhHeads == {"h1", "h2"}

\* A key that tests the branch for emptiness only.
KeyOfNonEmptyBranch(branch, head) == IF branch # "" THEN branch ELSE "detached:" \o head

\* services.make_cache_key and cli._cache_key.
make_cache_key(branch, head) ==
    IF branch # "" /\ branch # "(detached)" THEN branch ELSE "detached:" \o head

\* `state != "COMPLETED"` alone: a missing state counts as pending too.
AnyStateButCompleted(state) == state # "COMPLETED"

\* `state and state != "COMPLETED"` of classify_checks.
IsPendingState(state) == state # NULL /\ state # "" /\ state # "COMPLETED"

Min(a, b) == IF a <= b THEN a ELSE b

Max(a, b) == IF a >= b THEN a ELSE b

\* The loop of classify_checks over zip(conclusions, states), from index i.
RECURSIVE ClassifyLoop(_, _, _, _)
ClassifyLoop(conclusions, states, i, acc) ==
    IF i > Min(Len(conclusions), Len(states)) THEN acc
    ELSE LET seen == [acc EXCEPT !.pending = @ \/ IsPendingState(states[i])]
         IN  IF conclusions[i] = NULL
             THEN ClassifyLoop(conclusions, states, i + 1, [seen EXCEPT !.pending = TRUE])
             ELSE IF conclusions[i] = "SUCCESS" \/ conclusions[i] \in {"NEUTRAL", "SKIPPED"}
             THEN ClassifyLoop(conclusions, states, i + 1, [seen EXCEPT !.passed = @ + 1])
             ELSE ClassifyLoop(conclusions, states, i + 1, [seen EXCEPT !.failed = TRUE])

\* A total that counts the completed checks only.
TotalCompleted(conclusions, states) ==
    Cardinality({i \in 1..Min(Len(conclusions), Len(states)) : states[i] = "COMPLETED"})

\* total of classify_checks.
Total(conclusions, states) == Len(conclusions)

\* gh_ops.classify_checks and cli._classify_checks.
classify_checks(conclusions, states) ==
    LET total == Total(conclusions, states)
        acc == ClassifyLoop(conclusions, states, 1,
                            [passed |-> 0, failed |-> FALSE, pending |-> FALSE])
    IN  [ passed |-> acc.passed, total |-> total,
          state |-> IF total = 0 THEN NULL
                    ELSE IF acc.failed THEN "fail"
                    ELSE IF acc.pending THEN "pend"
                    ELSE "ok" ]

\* A row of worktree_cache as upsert_path inserts it.
EmptyRow ==
    [ pr_number |-> NULL, checks_passed |-> NoInt, checks_total |-> NoInt,
      checks_state |-> NULL ]

\* CacheDB.get_cached_worktree with load_worktrees's `if cached else None`.
CachedRow(cache, key) == IF key \in DOMAIN cache THEN cache[key] ELSE EmptyRow

\* The WorktreeInfo load_worktrees builds for the worktree.
LoadedItem(wt, cache) ==
    LET key == make_cache_key(wt.branch, wt.head)
        cached == CachedRow(cache, key)
    IN  [ branch |-> IF wt.branch # "" THEN wt.branch ELSE wt.head,
          head |-> wt.head,
          ref_name |-> IF wt.branch = "(detached)" \/ wt.branch = "" THEN NULL
                       ELSE wt.branch,
          cache_key |-> key,
          pr_number |-> cached.pr_number, pr_validated |-> FALSE,
          checks_passed |-> cached.checks_passed,
          checks_total |-> cached.checks_total,
          checks_state |-> cached.checks_state, checks_validated |-> FALSE ]

\* services.load_worktrees: the list is rebuilt from git and the cache; the
\* row of the key is inserted when it is missing (upsert_path).
GhLoadWorktrees ==
    /\ gh_pc = "idle"
    /\ LET key == make_cache_key(gh_wt.branch, gh_wt.head)
       IN  /\ gh_call' = [branch |-> gh_wt.branch, head |-> gh_wt.head, key |-> key]
           /\ gh_items' = <<LoadedItem(gh_wt, gh_cache)>>
           /\ gh_cache' = IF key \in DOMAIN gh_cache THEN gh_cache
                          ELSE MapPut(gh_cache, key, EmptyRow)
    /\ UNCHANGED <<gh_wt, gh_pc, gh_rollup, gh_info>>
    /\ UNCHANGED OthersThanChecks

\* The user checks out another branch, or detaches HEAD, in the worktree.
GhCheckout ==
    /\ gh_pc = "idle"
    /\ \E b \in GhBranches \ {gh_wt.branch} : gh_wt' = [gh_wt EXCEPT !.branch = b]
    /\ UNCHANGED <<gh_items, gh_cache, gh_pc, gh_rollup, gh_info, gh_call>>
    /\ UNCHANGED OthersThanChecks

\* The item with the pull request and the checks refresh_github writes.
WithChecks(item, pr_number, info) ==
    [ item EXCEPT !.pr_number = pr_number, !.pr_validated = TRUE,
                  !.checks_passed = IF info = <<>> THEN NoInt ELSE Some(info[1].passed),
                  !.checks_total = IF info = <<>> THEN NoInt ELSE Some(info[1].total),
                  !.checks_state = IF info = <<>> THEN NULL ELSE info[1].state,
                  !.checks_validated = TRUE ]

\* CacheDB.upsert_pr_and_checks with the values refresh_github passes.
UpsertPrAndChecks(cache, key, pr_number, info) ==
    MapPut(cache, key,
           [ pr_number |-> pr_number,
             checks_passed |-> IF info = <<>> THEN NoInt ELSE Some(info[1].passed),
             checks_total |-> IF info = <<>> THEN NoInt ELSE Some(info[1].total),
             checks_state |-> IF info = <<>> THEN NULL ELSE info[1].state ])

\* refresh_github, the item has no branch or the branch has no pull request:
\* the fields are cleared; the cache row is cleared in the second case only.
GhRefreshNoPr ==
    /\ gh_pc = "idle" /\ gh_items # <<>>
    /\ gh_items' = <<WithChecks(gh_items[1], NULL, <<>>)>>
    /\ gh_cache' = IF gh_items[1].ref_name = NULL THEN gh_cache
                   ELSE UpsertPrAndChecks(gh_cache, gh_items[1].cache_key, NULL, <<>>)
    /\ UNCHANGED <<gh_wt, gh_pc, gh_rollup, gh_info, gh_call>>
    /\ UNCHANGED OthersThanChecks

\* refresh_github, the branch has a pull request: gh_ops.get_checks_info
\* fetches the rollup and classifies it, or returns None when gh fails.
GhGetChecks ==
    /\ gh_pc = "idle" /\ gh_items # <<>> /\ gh_items[1].ref_name # NULL
    /\ \/ \E rollup \in Rollups :
             /\ gh_rollup' = rollup
             /\ gh_info' = <<classify_checks([i \in 1..Len(rollup) |-> rollup[i].conclusion],
                                             [i \in 1..Len(rollup) |-> rollup[i].state])>>
       \/ gh_rollup' = <<>> /\ gh_info' = <<>>
    /\ gh_pc' = "store"
    /\ UNCHANGED <<gh_wt, gh_items, gh_cache, gh_call>>
    /\ UNCHANGED OthersThanChecks

\* refresh_github, the rest of the iteration: the item under state_lock, then
\* the cache row under the database lock.
GhStore ==
    /\ gh_pc = "store"
    /\ gh_items' = <<WithChecks(gh_items[1], "7", gh_info)>>
    /\ gh_cache' = UpsertPrAndChecks(gh_cache, gh_items[1].cache_key, "7", gh_info)
    /\ gh_pc' = "idle" /\ gh_rollup' = <<>> /\ gh_info' = <<>>
    /\ UNCHANGED <<gh_wt, gh_call>>
    /\ UNCHANGED OthersThanChecks

GhStep == GhLoadWorktrees \/ GhCheckout \/ GhRefreshNoPr \/ GhGetChecks \/ GhStore

NoCall == [branch |-> "", head |-> "", key |-> ""]

GhOff ==
    /\ gh_wt = [branch |-> "", head |-> ""] /\ gh_items = <<>> /\ gh_cache = EmptyMap
    /\ gh_pc = "off" /\ gh_rollup = <<>> /\ gh_info = <<>> /\ gh_call = NoCall

\* The cache database is new and nothing is loaded.
GhInit ==
    /\ \E b \in GhBranches, h \in GhHeads : gh_wt = [branch |-> b, head |-> h]
    /\ gh_items = <<>> /\ gh_cache = EmptyMap
    /\ gh_pc = "idle" /\ gh_rollup = <<>> /\ gh_info = <<>> /\ gh_call = NoCall

\* ------------------------------------------------- cache.py: the table
\* The most statuses passed to one upsert_worktrees here.
MaxStatuses == 2

\* pathlib.Path values, as their parts below the repository root.
DbPaths == {<<"repo", "a">>, <<"repo", "b">>}

\* str(path)
PathStr(path) == path[1] \o "/" \o path[2]

\* Path(text): the path whose text it is.
PathOf(text) == CHOOSE path \in DbPaths : PathStr(path) = text

\* WorktreeStatus values, reduced to a path, a nullable text column, the
\* integer column read with `or 0` and a nullable integer column.
DbStatuses ==
    [ path : DbPaths, branch : {NULL, "x"}, last_commit_ts : {0, 5},
      ahead : {NoInt, Some(0)} ]

DbCollections == UNION { [1..n -> DbStatuses] : n \in 0..MaxStatuses }

\* The tuple upsert_worktrees binds for a status (updated_at left out: no
\* query reads it).
RowOf(s) ==
    [ path |-> PathStr(s.path), branch |-> s.branch,
      last_commit_ts |-> s.last_commit_ts, ahead |-> s.ahead ]

\* INSERT OR IGNORE: a row that exists is kept as it is.
KeepExisting(rows, s) ==
    IF PathStr(s.path) \in DOMAIN rows THEN rows ELSE MapPut(rows, PathStr(s.path), RowOf(s))

\* INSERT ... ON CONFLICT(path) DO UPDATE SET every column = excluded.
UpsertRow(rows, s) == MapPut(rows, PathStr(s.path), RowOf(s))

\* executemany: the statuses one after the other.
RECURSIVE UpsertAll(_, _)
UpsertAll(rows, xs) ==
    IF xs = <<>> THEN rows ELSE UpsertAll(UpsertRow(rows, Head(xs)), Tail(xs))

\* The WorktreeStatus load_worktrees builds from a row.
StatusOfRow(row) ==
    [ path |-> PathOf(row.path), branch |-> row.branch,
      last_commit_ts |-> IF row.last_commit_ts # 0 THEN row.last_commit_ts ELSE 0,
      ahead |-> row.ahead ]

\* Cache.upsert_worktrees
DbUpsert ==
    /\ \E xs \in DbCollections :
          /\ db_xs' = xs
          /\ db_rows' = UpsertAll(db_rows, xs)
    /\ db_before' = DOMAIN db_rows
    /\ db_loaded' = {} /\ db_pc' = "upserted"
    /\ UNCHANGED OthersThanCache

\* Cache.load_worktrees: one status per row of the table.
DbLoad ==
    /\ db_loaded' = {StatusOfRow(db_rows[k]) : k \in DOMAIN db_rows}
    /\ db_pc' = IF db_pc = "upserted" THEN "round_trip" ELSE "loaded"
    /\ UNCHANGED <<db_rows, db_xs, db_before>>
    /\ UNCHANGED OthersThanCache

DbStep == DbUpsert \/ DbLoad

DbOff ==
    /\ db_rows = EmptyMap /\ db_xs = <<>> /\ db_before = {} /\ db_loaded = {}
    /\ db_pc = "off"

\* Cache.__init__ on a new database file: the table is created empty.
DbInit ==
    /\ db_rows = EmptyMap /\ db_xs = <<>> /\ db_before = {} /\ db_loaded = {}
    /\ db_pc = "idle"

\* ------------------- tui.py: create, rename, delete, each with its reload
\* The lifecycle operations followed in one run.
MaxLife == 3

\* do_delete: git worktree remove --force, then git branch -D.
DoDelete(op) ==
    IF op.path \notin DOMAIN tui_wt \/ op.path \notin tui_branches
    THEN [branches |-> tui_branches, wt |-> tui_wt, dirs |-> tui_dirs, raised |-> TRUE]
    ELSE [branches |-> tui_branches \ {op.path},
          wt |-> [p \in DOMAIN tui_wt \ {op.path} |-> tui_wt[p]],
          dirs |-> tui_dirs \ {op.path},
          raised |-> FALSE]

\* The rows services.load_worktrees leaves in worktree_cache: upsert_path
\* under the key of every worktree whose path is a directory. No statement
\* of cache_db.py deletes a row.
KeysAfterLoad(cache, wt, dirs) ==
    cache \cup {make_cache_key(wt[p], "h1") : p \in DOMAIN wt \cap dirs}

\* The handler's operation has run; after a success _finish_action reloads.
LifeDone(op, after) ==
    /\ tui_branches' = after.branches /\ tui_wt' = after.wt /\ tui_dirs' = after.dirs
    /\ IF after.raised
       THEN /\ tui_status' = FailurePrefix(op.kind) \o ": stderr"
            /\ UNCHANGED <<tui_cache, tui_life>>
       ELSE /\ tui_status' = SuccessMessage(op.kind)
            /\ tui_cache' = KeysAfterLoad(tui_cache, after.wt, after.dirs)
            /\ tui_life' = Append(tui_life, op)
    /\ TuiUnchangedExcept({"tui_status", "git", "cache"})

\* action_new_worktree with do_create, _finish_action and _reload_items.
LifeCreate ==
    /\ tui_pc = "idle" /\ Len(tui_life) < MaxLife
    /\ \E new_branch \in TuiTyped \ {NULL} :
          /\ IsValidBranchName(new_branch)
          /\ new_branch \notin tui_branches /\ new_branch \notin tui_dirs
          /\ LET op == [kind |-> "create", path |-> NULL, new |-> new_branch]
             IN  LifeDone(op, DoCreate(op))

\* action_rename_worktree with do_rename, _finish_action and _reload_items,
\* for a worktree whose directory carries the name of its branch.
LifeRename ==
    /\ tui_pc = "idle" /\ Len(tui_life) < MaxLife
    /\ \E current \in DOMAIN tui_wt, new_branch \in TuiTyped \ {NULL} :
          /\ tui_wt[current] = current
          /\ IsValidBranchName(new_branch) /\ new_branch \notin tui_branches
          /\ LET op == [kind |-> "rename", path |-> current, new |-> new_branch]
             IN  LifeDone(op, DoRename(op))

\* action_delete_worktree, confirmed, with do_delete, _finish_action and
\* _reload_items.
LifeDelete ==
    /\ tui_pc = "idle" /\ Len(tui_life) < MaxLife
    /\ \E current \in DOMAIN tui_wt :
          /\ tui_wt[current] = current
          /\ LET op == [kind |-> "delete", path |-> current, new |-> NULL]
             IN  LifeDone(op, DoDelete(op))

LifeStep == LifeCreate \/ LifeRename \/ LifeDelete

\* --------------------------------- app.py over git.py: create, rename, delete
\* Branch names; the worktree of a branch is created at repo_root / branch.
AppNames == {"a", "c", "d"}

\* The repository as the git commands see and change it.
Repo(branches, wt, dirs) == [branches |-> branches, wt |-> wt, dirs |-> dirs]

\* git.create_worktree: GitError when the branch exists, else
\* `git worktree add -b branch path`, which fails when the path exists.
CreateWorktree(repo, branch, path) ==
    IF branch \in repo.branches \/ path \in repo.dirs
    THEN [repo |-> repo, raised |-> TRUE]
    ELSE [repo |-> Repo(repo.branches \cup {branch}, MapPut(repo.wt, path, branch),
                        repo.dirs \cup {path}),
          raised |-> FALSE]

\* git.remove_worktree: `git worktree remove -f path`; the branch stays.
RemoveWorktree(repo, path) ==
    IF path \notin DOMAIN repo.wt
    THEN [repo |-> repo, raised |-> TRUE]
    ELSE [repo |-> Repo(repo.branches, MapPop(repo.wt, path), repo.dirs \ {path}),
          raised |-> FALSE]

\* git.rename_branch: `git branch -m old new`.
RenameBranch(repo, old, new) ==
    IF old \notin repo.branches \/ new \in repo.branches
    THEN [repo |-> repo, raised |-> TRUE]
    ELSE [repo |-> Repo((repo.branches \ {old}) \cup {new},
                        [p \in DOMAIN repo.wt |-> IF repo.wt[p] = old THEN new ELSE repo.wt[p]],
                        repo.dirs),
          raised |-> FALSE]

\* A move that leaves the old directory where it was.
CopyWorktree(repo, old_path, new_path) ==
    [repo |-> Repo(repo.branches, MapPut(repo.wt, new_path, repo.wt[old_path]),
                   repo.dirs \cup {new_path}),
     raised |-> FALSE]

\* git.move_worktree: `git worktree move old_path new_path`, which fails
\* when the target exists.
MoveWorktree(repo, old_path, new_path) ==
    IF old_path \notin DOMAIN repo.wt \/ new_path \in repo.dirs
    THEN [repo |-> repo, raised |-> TRUE]
    ELSE [repo |-> Repo(repo.branches,
                        MapPut(MapPop(repo.wt, old_path), new_path, repo.wt[old_path]),
                        (repo.dirs \ {old_path}) \cup {new_path}),
          raised |-> FALSE]

AppRepo == Repo(app_branches, app_wt, app_dirs)

\* The operation ends: the repository is what the commands left, and an
\* operation that returned normally is noted.
AppDone(op, result) ==
    /\ app_branches' = result.repo.branches
    /\ app_wt' = result.repo.wt
    /\ app_dirs' = result.repo.dirs
    /\ app_life' = IF result.raised THEN app_life ELSE Append(app_life, op)
    /\ UNCHANGED OthersThanApp

\* App.new_worktree(branch)
AppNewWorktree ==
    /\ Len(app_life) < MaxLife
    /\ \E branch \in AppNames :
          AppDone([kind |-> "create", path |-> branch, new |-> NULL],
                  CreateWorktree(AppRepo, branch, branch))

\* App.rename(old, new): the worktree of the branch old is looked up in the
\* refreshed statuses; rename_branch, then move_worktree; the first command
\* that fails raises and the rest is not run.
AppRename ==
    /\ Len(app_life) < MaxLife
    /\ \E old_path \in DOMAIN app_wt, new \in AppNames :
          LET old_branch == app_wt[old_path]
              renamed == RenameBranch(AppRepo, old_branch, new)
          IN  AppDone([kind |-> "rename", path |-> old_path, new |-> new],
                      IF renamed.raised THEN renamed
                      ELSE MoveWorktree(renamed.repo, old_path, new))

\* App._delete_paths([path]) for a path that exists, confirmed: a GitError of
\* remove_worktree is printed and not raised.
AppDelete ==
    /\ Len(app_life) < MaxLife
    /\ \E path \in app_dirs :
          AppDone([kind |-> "delete", path |-> path, new |-> NULL],
                  RemoveWorktree(AppRepo, path))

AppStep == AppNewWorktree \/ AppRename \/ AppDelete

AppOff ==
    /\ app_branches = {} /\ app_wt = EmptyMap /\ app_dirs = {} /\ app_life = <<>>

\* The repository of the test: the worktree of the default branch, and maybe
\* a file in the place of a later worktree.
AppInit ==
    /\ app_branches = {"a"} /\ app_wt = [p \in {"a"} |-> "a"]
    /\ \E stray \in SUBSET {"d"} : app_dirs = {"a"} \cup stray
    /\ app_life = <<>>

\* ------------------ services.py over cache_db.py: stages and cache rows
\* The refresh cycles started in one run, and the latest clock reading.
MaxCycles == 2

MaxNow == 2

\* The columns of worktree_cache; pr_number stands for the four columns of
\* the pull request, checks_state for the three columns of the checks.
SecEmptyRow ==
    [ path |-> NULL,
      pull |-> NoInt, push |-> NoInt, pullpush_validated_at |-> NoInt,
      additions |-> NoInt, deletions |-> NoInt, dirty |-> NoInt,
      changes_updated_at |-> NoInt,
      pr_number |-> NULL, pr_updated_at |-> NoInt,
      checks_state |-> NULL, checks_updated_at |-> NoInt ]

\* The row an INSERT ... ON CONFLICT(branch) DO UPDATE starts from: the row
\* of the key, or a new row with every other column NULL.
RowFor(rows, key) == IF key \in DOMAIN rows THEN rows[key] ELSE SecEmptyRow

\* CacheDB.upsert_path
UpsertPath(rows, key, path) ==
    MapPut(rows, key, [RowFor(rows, key) EXCEPT !.path = path])

\* INSERT OR REPLACE: the columns that are not listed become NULL.
ReplacePullPush(rows, key, path, pull, push, now) ==
    MapPut(rows, key,
           [SecEmptyRow EXCEPT !.path = path, !.pull = Some(pull), !.push = Some(push),
                               !.pullpush_validated_at = Some(now)])

\* CacheDB.upsert_pull_push
UpsertPullPush(rows, key, path, pull, push, now) ==
    MapPut(rows, key,
           [RowFor(rows, key) EXCEPT !.path = path, !.pull = Some(pull), !.push = Some(push),
                                     !.pullpush_validated_at = Some(now)])

\* CacheDB.upsert_changes; dirty is stored as int(dirty).
UpsertChanges(rows, key, path, additions, deletions, dirty, now) ==
    MapPut(rows, key,
           [RowFor(rows, key) EXCEPT !.path = path, !.additions = Some(additions),
                                     !.deletions = Some(deletions),
                                     !.dirty = Some(IF dirty THEN 1 ELSE 0),
                                     !.changes_updated_at = Some(now)])

\* CacheDB.upsert_pr_and_checks, with the timestamps it sets.
UpsertPrChecks(rows, key, path, pr_number, checks_state, now) ==
    MapPut(rows, key,
           [RowFor(rows, key) EXCEPT !.path = path, !.pr_number = pr_number,
                                     !.pr_updated_at = Some(now),
                                     !.checks_state = checks_state,
                                     !.checks_updated_at = Some(now)])

\* The two worktrees of the run: a branch and a detached HEAD, or two
\* detached HEADs at one commit.
SecWorktrees ==
    { << [path |-> "m", branch |-> "main", head |-> "h1"],
         [path |-> "x", branch |-> "(detached)", head |-> "h2"] >>,
      << [path |-> "x", branch |-> "(detached)", head |-> "h2"],
         [path |-> "y", branch |-> "(detached)", head |-> "h2"] >> }

\* services.load_worktrees for one worktree: pull and push are counted anew,
\* the other sections come from the row of the key.
SecLoaded(wt, rows, pull, push) ==
    LET key == make_cache_key(wt.branch, wt.head)
        ref_name == IF wt.branch = "(detached)" \/ wt.branch = "" THEN NULL ELSE wt.branch
        cached == key \in DOMAIN rows
    IN  [ path |-> wt.path, branch |-> wt.branch, head |-> wt.head,
          ref_name |-> ref_name, cache_key |-> key,
          pull |-> IF ref_name # NULL THEN pull ELSE 0,
          push |-> IF ref_name # NULL THEN push ELSE 0,
          pull_push_validated |-> FALSE,
          additions |-> IF cached /\ rows[key].additions # NoInt
                        THEN rows[key].additions[1] ELSE 0,
          deletions |-> IF cached /\ rows[key].deletions # NoInt
                        THEN rows[key].deletions[1] ELSE 0,
          dirty |-> IF cached /\ rows[key].dirty # NoInt THEN rows[key].dirty[1] # 0
                    ELSE FALSE,
          changes_validated |-> FALSE,
          pr_number |-> IF cached THEN rows[key].pr_number ELSE NULL,
          pr_validated |-> FALSE,
          checks_state |-> IF cached THEN rows[key].checks_state ELSE NULL,
          checks_validated |-> FALSE ]

\* The rows after load_worktrees has passed the worktrees: upsert_path each.
RECURSIVE SecLoadRows(_, _)
SecLoadRows(rows, wts) ==
    IF wts = <<>> THEN rows
    ELSE SecLoadRows(UpsertPath(rows, make_cache_key(Head(wts).branch, Head(wts).head),
                               Head(wts).path),
                     Tail(wts))

\* The worktree an item was loaded for.
WorktreeOf(item) == [path |-> item.path, branch |-> item.branch, head |-> item.head]

NoStep == [stage |-> "none", idx |-> 0, upsert |-> NULL]

SecUnchanged(changed) ==
    /\ ("sec_rows" \in changed \/ sec_rows' = sec_rows)
    /\ ("sec_items" \in changed \/ sec_items' = sec_items)
    /\ ("sec_pc" \in changed \/ (sec_pc' = sec_pc /\ sec_idx' = sec_idx))
    /\ ("sec_gh" \in changed \/ (sec_gh' = sec_gh /\ sec_cycles' = sec_cycles))
    /\ ("sec_now" \in changed \/ sec_now' = sec_now)
    /\ ("sec_last" \in changed \/ sec_last' = sec_last)
    /\ UNCHANGED OthersThanSections

\* The clock moves on.
SecTick ==
    /\ sec_now < MaxNow
    /\ sec_now' = sec_now + 1
    /\ SecUnchanged({"sec_now"})

\* TuiApp._reload_items: services.load_worktrees, then items.clear() and
\* items.extend(new_items) on the list the refresh thread iterates. It runs
\* while no refresh runs, between refresh_pull_push and refresh_changes, and
\* between two items of refresh_github, where the database lock is free; the
\* iteration goes on at its index in the new items.
SecReload ==
    /\ \/ sec_pc \in {"idle", "done"}
       \/ sec_pc = "changes" /\ sec_idx = 1
       \/ sec_pc = "github" /\ sec_idx > 1
    /\ \E pull, push \in Counts :
          sec_items' = [i \in 1..Len(sec_items) |->
                           SecLoaded(WorktreeOf(sec_items[i]), sec_rows, pull, push)]
    /\ sec_rows' = SecLoadRows(sec_rows, [i \in 1..Len(sec_items) |-> WorktreeOf(sec_items[i])])
    /\ IF sec_pc \in {"idle", "done"}
       THEN sec_pc' = "idle" /\ sec_idx' = 0
       ELSE sec_pc' = sec_pc /\ sec_idx' = sec_idx
    /\ sec_last' = NoStep
    /\ SecUnchanged({"sec_items", "sec_rows", "sec_pc", "sec_last"})

\* The refresh thread starts refresh_from_upstream.
SecStart ==
    /\ sec_pc \in {"idle", "done"}
    /\ sec_cycles < MaxCycles
    /\ sec_cycles' = sec_cycles + 1
    /\ sec_gh' \in BOOLEAN
    /\ sec_pc' = "pull_push" /\ sec_idx' = 1
    /\ sec_last' = NoStep
    /\ SecUnchanged({"sec_pc", "sec_gh", "sec_last"})

\* The stage after the one that has passed its last item.
NextStage(stage) ==
    CASE stage = "pull_push" -> "changes"
      [] stage = "changes" -> IF sec_gh THEN "github" ELSE "done"
      [] stage = "github" -> "done"

\* The position after the item at sec_idx.
SecAdvance ==
    IF sec_idx < Len(sec_items)
    THEN sec_pc' = sec_pc /\ sec_idx' = sec_idx + 1
    ELSE sec_pc' = NextStage(sec_pc) /\ sec_idx' = IF NextStage(sec_pc) = "done" THEN 0 ELSE 1

\* refresh_pull_push, one item: an item without a branch gets zeros and no
\* row is written; the others get the counts and upsert_pull_push.
SecPullPush ==
    /\ sec_pc = "pull_push"
    /\ LET item == sec_items[sec_idx]
       IN  IF item.ref_name = NULL
           THEN /\ sec_items' = [sec_items EXCEPT ![sec_idx] =
                                    [item EXCEPT !.pull = 0, !.push = 0,
                                                 !.pull_push_validated = TRUE]]
                /\ sec_rows' = sec_rows
                /\ sec_last' = [stage |-> "pull_push", idx |-> sec_idx, upsert |-> NULL]
           ELSE \E upstream \in BOOLEAN, behind, ahead \in Counts :
                   LET pull == IF upstream THEN behind ELSE 0
                       push == IF upstream THEN ahead ELSE 0
                   IN  /\ sec_items' = [sec_items EXCEPT ![sec_idx] =
                                           [item EXCEPT !.pull = pull, !.push = push,
                                                        !.pull_push_validated = TRUE]]
                       /\ sec_rows' = UpsertPullPush(sec_rows, item.cache_key, item.path,
                                                     pull, push, sec_now)
                       /\ sec_last' = [stage |-> "pull_push", idx |-> sec_idx,
                                       upsert |-> item.cache_key]
    /\ SecAdvance
    /\ SecUnchanged({"sec_items", "sec_rows", "sec_pc", "sec_last"})

\* refresh_changes, one item: skipped when the path is no directory.
SecChanges ==
    /\ sec_pc = "changes"
    /\ LET item == sec_items[sec_idx]
       IN  \/ /\ UNCHANGED <<sec_items, sec_rows>>
              /\ sec_last' = NoStep
           \/ \E additions \in Counts, dirty \in BOOLEAN :
                 /\ sec_items' = [sec_items EXCEPT ![sec_idx] =
                                     [item EXCEPT !.additions = additions, !.deletions = 0,
                                                  !.dirty = dirty,
                                                  !.changes_validated = TRUE]]
                 /\ sec_rows' = UpsertChanges(sec_rows, item.cache_key, item.path,
                                              additions, 0, dirty, sec_now)
                 /\ sec_last' = [stage |-> "changes", idx |-> sec_idx,
                                 upsert |-> item.cache_key]
    /\ SecAdvance
    /\ SecUnchanged({"sec_items", "sec_rows", "sec_pc", "sec_last"})

\* refresh_github, one item: an item without a branch is cleared and no row
\* is written; the others get the pull request and the checks found, or
\* None, and upsert_pr_and_checks.
SecGithub ==
    /\ sec_pc = "github"
    /\ LET item == sec_items[sec_idx]
       IN  IF item.ref_name = NULL
           THEN /\ sec_items' = [sec_items EXCEPT ![sec_idx] =
                                    [item EXCEPT !.pr_number = NULL, !.pr_validated = TRUE,
                                                 !.checks_state = NULL,
                                                 !.checks_validated = TRUE]]
                /\ sec_rows' = sec_rows
                /\ sec_last' = [stage |-> "github", idx |-> sec_idx, upsert |-> NULL]
           ELSE \E pr \in {NULL, "7"}, checks \in {NULL, "ok"} :
                   LET state == IF pr = NULL THEN NULL ELSE checks
                   IN  /\ sec_items' = [sec_items EXCEPT ![sec_idx] =
                                           [item EXCEPT !.pr_number = pr,
                                                        !.pr_validated = TRUE,
                                                        !.checks_state = state,
                                                        !.checks_validated = TRUE]]
                       /\ sec_rows' = UpsertPrChecks(sec_rows, item.cache_key, item.path,
                                                     pr, state, sec_now)
                       /\ sec_last' = [stage |-> "github", idx |-> sec_idx,
                                       upsert |-> item.cache_key]
    /\ SecAdvance
    /\ SecUnchanged({"sec_items", "sec_rows", "sec_pc", "sec_last"})

SecStep == SecTick \/ SecReload \/ SecStart \/ SecPullPush \/ SecChanges \/ SecGithub

SecOff ==
    /\ sec_rows = EmptyMap /\ sec_items = <<>> /\ sec_pc = "off" /\ sec_idx = 0
    /\ sec_gh = FALSE /\ sec_cycles = 0 /\ sec_now = 0 /\ sec_last = NoStep

\* The app is mounted: load_worktrees has run on a new database.
SecInit ==
    /\ \E wts \in SecWorktrees, pull, push \in Counts :
          /\ sec_items = [i \in 1..Len(wts) |-> SecLoaded(wts[i], EmptyMap, pull, push)]
          /\ sec_rows = SecLoadRows(EmptyMap, wts)
    /\ sec_pc = "idle" /\ sec_idx = 0 /\ sec_gh = FALSE /\ sec_cycles = 0
    /\ sec_now = 1 /\ sec_last = NoStep

\* ------------------------------------------- tui.py: the table's cursor
\* The worktrees of the table: two branches and two detached HEADs, whose
\* branch field is the label parse_worktrees gives them.
TblWorktrees ==
    { [path |-> "m", branch |-> "main"], [path |-> "d", branch |-> "dev"],
      [path |-> "x", branch |-> "(detached)"], [path |-> "y", branch |-> "(detached)"] }

\* load_worktrees sorts by last_commit_ts: any order of the worktrees.
TblOrders ==
    { order \in [1..Cardinality(TblWorktrees) -> TblWorktrees] :
          \A i, j \in 1..Cardinality(TblWorktrees) : i # j => order[i] # order[j] }

\* TuiApp._current_item
CurrentItem(items, row) ==
    IF items = <<>> \/ row < 0 \/ row >= Len(items) THEN <<>> ELSE <<items[row + 1]>>

\* The index of the first row with the path.
RowOfPath(items, path, otherwise) ==
    IF \E i \in 1..Len(items) : items[i].path = path
    THEN (CHOOSE i \in 1..Len(items) :
              items[i].path = path /\ \A j \in 1..(i - 1) : items[j].path # path) - 1
    ELSE otherwise

\* The loop of _populate_table and _reload_items: the index of the first
\* item with the branch label.
RowOfBranch(items, branch, otherwise) ==
    IF \E i \in 1..Len(items) : items[i].branch = branch
    THEN (CHOOSE i \in 1..Len(items) :
              items[i].branch = branch /\ \A j \in 1..(i - 1) : items[j].branch # branch) - 1
    ELSE otherwise

\* TuiApp._populate_table: the cursor row after the repaint.
PopulateTable(items, row) ==
    IF items = <<>> THEN 0
    ELSE IF CurrentItem(items, row) = <<>> THEN 0
    ELSE RowOfBranch(items, CurrentItem(items, row)[1].branch, 0)

\* The path under the cursor.
PathUnderCursor(items, row) ==
    IF CurrentItem(items, row) = <<>> THEN NULL ELSE CurrentItem(items, row)[1].path

\* DataTable's cursor keys.
TblKey ==
    /\ \E row \in {tbl_cursor - 1, tbl_cursor + 1} :
          /\ row \in 0..(Len(tbl_items) - 1)
          /\ tbl_cursor' = row
    /\ tbl_op' = "key"
    /\ UNCHANGED <<tbl_items, tbl_before, OthersThanTable>>

\* TuiApp._tick: the repaint every quarter of a second.
TblTick ==
    /\ tbl_before' = PathUnderCursor(tbl_items, tbl_cursor)
    /\ tbl_cursor' = PopulateTable(tbl_items, tbl_cursor)
    /\ tbl_op' = "repaint"
    /\ UNCHANGED <<tbl_items, OthersThanTable>>

\* _finish_action after a pull or a push of the branch: _reload_items with
\* the branch of the item the operation ran on.
TblReload ==
    /\ \E new_items \in TblOrders, selected_branch \in {"main", "dev"} :
          /\ tbl_items' = new_items
          /\ tbl_cursor' = RowOfBranch(new_items, selected_branch,
                                       PopulateTable(new_items, tbl_cursor))
    /\ tbl_before' = PathUnderCursor(tbl_items, tbl_cursor)
    /\ tbl_op' = "reload"
    /\ UNCHANGED OthersThanTable

TblStep == TblKey \/ TblTick \/ TblReload

TblOff == tbl_items = <<>> /\ tbl_cursor = 0 /\ tbl_before = NULL /\ tbl_op = "off"

\* on_mount: the table is filled, the cursor is on the first row.
TblInit ==
    /\ tbl_items \in TblOrders
    /\ tbl_cursor = 0
    /\ tbl_before = NULL
    /\ tbl_op = "mount"

\* -------------------------- git.py, git_ops.py: the listing of worktrees
\* Paths and refs are sequences of their components; None and the empty
\* string are the empty sequence.
RepoRootPath == <<"repo">>

\* The record of the main worktree: a bare repository whose git directory
\* is repo/.git (git prints its parent), a bare repository in repo/.bare
\* that a .git file of repo points to, or a checkout at the root, on a
\* branch or detached.
MainRecords ==
    { [path |-> <<"repo">>, tag |-> "bare", head |-> <<>>, ref |-> <<>>],
      [path |-> <<"repo", ".bare">>, tag |-> "bare", head |-> <<>>, ref |-> <<>>],
      [path |-> <<"repo">>, tag |-> "branch", head |-> <<"h1">>,
       ref |-> <<"refs", "heads", "main">>],
      [path |-> <<"repo">>, tag |-> "detached", head |-> <<"h1">>, ref |-> <<>>] }

\* The records of linked worktrees.
LinkedRecords ==
    { [path |-> <<"repo", "feature">>, tag |-> "branch", head |-> <<"h2">>,
       ref |-> <<"refs", "heads", "feature">>],
      [path |-> <<"repo", "x">>, tag |-> "detached", head |-> <<"h3">>, ref |-> <<>>] }

MaxLinked == 2

\* The listings: the main worktree first, then linked worktrees.
Listings ==
    { <<main>> \o linked :
          main \in MainRecords,
          linked \in { order \in UNION { [1..n -> LinkedRecords] : n \in 0..MaxLinked } :
                           \A i, j \in DOMAIN order : i # j => order[i] # order[j] } }

Line(key, value) == [key |-> key, value |-> value]

BlankLine == Line("", <<>>)

\* The lines git worktree list --porcelain prints for one record, with the
\* blank line that closes it.
RecordLines(rec) ==
    <<Line("worktree", rec.path)>>
        \o (IF rec.tag = "bare" THEN <<Line("bare", <<>>)>> ELSE <<Line("HEAD", rec.head)>>)
        \o (IF rec.tag = "branch" THEN <<Line("branch", rec.ref)>>
            ELSE IF rec.tag = "detached" THEN <<Line("detached", <<>>)>> ELSE <<>>)
        \o <<BlankLine>>

RECURSIVE ListingLines(_)
ListingLines(records) ==
    IF records = <<>> THEN <<>>
    ELSE RecordLines(Head(records)) \o ListingLines(Tail(records))

\* git.py _short_branch
ShortBranch(ref) ==
    IF Len(ref) > 2 /\ ref[1] = "refs" /\ ref[2] = "heads" THEN SubSeq(ref, 3, Len(ref))
    ELSE ref

\* current.get(key)
Get(current, key) == IF key \in DOMAIN current THEN current[key] ELSE <<>>

\* Worktree(path=..., branch=_short_branch(...), head=...)
WorktreeOfDict(current) ==
    [path |-> Get(current, "worktree"), branch |-> ShortBranch(Get(current, "branch")),
     head |-> Get(current, "HEAD")]

\* Path.resolve(), on paths without links: the "." components go.
Resolve(path) == FilterSeq(path, {c \in Range(path) : c # "."})

\* The filter at the end of git.list_worktrees.
KeptByListWorktrees(wt, root) == ~(wt.branch = <<>> /\ Resolve(wt.path) = Resolve(root))

\* The filter with a test of the bare tag left out of the code.
RECURSIVE FilterEntries(_, _)
FilterEntries(entries, root) ==
    IF entries = <<>> THEN <<>>
    ELSE IF KeptByListWorktrees(Head(entries), root)
         THEN <<Head(entries)>> \o FilterEntries(Tail(entries), root)
         ELSE FilterEntries(Tail(entries), root)

\* git_ops.parse_worktrees: the record that the loop holds is appended when
\* it has a path, is not bare and has a branch or a head.
ParsedAppend(out, cur) ==
    IF cur.path # <<>> /\ ~cur.bare /\ (cur.branch # <<>> \/ cur.head # <<>>)
    THEN Append(out, [path |-> cur.path, branch |-> cur.branch, head |-> cur.head])
    ELSE out

NoRecord == [path |-> <<>>, branch |-> <<>>, head |-> <<>>, bare |-> FALSE]

RECURSIVE ParseLoop(_, _, _)
ParseLoop(lines, cur, out) ==
    IF lines = <<>> THEN ParsedAppend(out, cur)
    ELSE LET line == Head(lines)
         IN  CASE line.key = "worktree" ->
                     ParseLoop(Tail(lines), [NoRecord EXCEPT !.path = line.value],
                               ParsedAppend(out, cur))
               [] line.key = "branch" ->
                     ParseLoop(Tail(lines), [cur EXCEPT !.branch = ShortBranch(line.value)], out)
               [] line.key = "HEAD" ->
                     ParseLoop(Tail(lines), [cur EXCEPT !.head = line.value], out)
               [] line.key = "detached" ->
                     ParseLoop(Tail(lines), [cur EXCEPT !.branch = <<"(detached)">>], out)
               [] line.key = "bare" ->
                     ParseLoop(Tail(lines), [cur EXCEPT !.bare = TRUE], out)
               [] OTHER -> ParseLoop(Tail(lines), cur, out)

parse_worktrees(lines) == ParseLoop(lines, NoRecord, <<>>)

\* One pass of the loop of git.list_worktrees.
LwLine ==
    /\ lw_pc = "lines" /\ lw_lines # <<>>
    /\ LET line == Head(lw_lines)
       IN  IF line = BlankLine
           THEN /\ lw_entries' = IF lw_current # EmptyMap
                                 THEN Append(lw_entries, WorktreeOfDict(lw_current))
                                 ELSE lw_entries
                /\ lw_current' = EmptyMap
           ELSE /\ lw_current' = MapPut(lw_current, line.key, line.value)
                /\ lw_entries' = lw_entries
    /\ lw_lines' = Tail(lw_lines)
    /\ UNCHANGED <<lw_records, lw_root, lw_out, lw_parsed, lw_pc, OthersThanListing>>

\* After the loop: the last record, whose blank line _run_cmd has stripped,
\* then the filter.
LwReturn ==
    /\ lw_pc = "lines" /\ lw_lines = <<>>
    /\ lw_entries' = IF lw_current # EmptyMap
                     THEN Append(lw_entries, WorktreeOfDict(lw_current))
                     ELSE lw_entries
    /\ lw_current' = EmptyMap
    /\ lw_out' = FilterEntries(lw_entries', lw_root)
    /\ lw_pc' = "listed"
    /\ UNCHANGED <<lw_records, lw_root, lw_lines, lw_parsed, OthersThanListing>>

\* git_ops.parse_worktrees on the same listing.
LwParse ==
    /\ lw_pc = "listed"
    /\ lw_parsed' = parse_worktrees(SubSeq(ListingLines(lw_records), 1,
                                           Len(ListingLines(lw_records)) - 1))
    /\ lw_pc' = "done"
    /\ UNCHANGED <<lw_records, lw_root, lw_lines, lw_current, lw_entries, lw_out,
                   OthersThanListing>>

LwStep == LwLine \/ LwReturn \/ LwParse

LwOff ==
    /\ lw_records = <<>> /\ lw_root = <<>> /\ lw_lines = <<>> /\ lw_current = EmptyMap
    /\ lw_entries = <<>> /\ lw_out = <<>> /\ lw_parsed = <<>> /\ lw_pc = "off"

\* _run_git has returned the listing, stripped of its last blank line; the
\* caller passes the root as it is or with a trailing ".".
LwInit ==
    /\ lw_records \in Listings
    /\ lw_root \in {RepoRootPath, RepoRootPath \o <<".">>}
    /\ lw_lines = SubSeq(ListingLines(lw_records), 1, Len(ListingLines(lw_records)) - 1)
    /\ lw_current = EmptyMap /\ lw_entries = <<>> /\ lw_out = <<>> /\ lw_parsed = <<>>
    /\ lw_pc = "lines"

\* ------------------------------ tui.py, cli.py, ui.py: the cells of a row
\* The thresholds of relative_time, in seconds.
SecondsPerMinute == 60

SecondsPerHour == 3600

SecondsPerDay == 86400

SecondsPerWeek == 604800

SecondsPerMonth == 2629800

\* The divisors of _format_relative_commit_age.
MinutesPerHour == 60

HoursPerDay == 24

DaysPerWeek == 7

DaysPerMonth == 30

FmtThresholds ==
    {SecondsPerMinute, SecondsPerHour, SecondsPerDay, SecondsPerWeek, SecondsPerMonth}

\* The ages formatted: around every threshold, and some months.
FmtAges ==
    {0, 1} \cup UNION { {t - 1, t, t + 1, 2 * t} : t \in FmtThresholds }
           \cup {DaysPerMonth * SecondsPerDay}

\* int(time.time()) when the row is painted.
FmtNows == {3 * SecondsPerMonth}

\* str(n) for the counts of the model.
IntStr(n) == CASE n = 0 -> "0" [] n = 1 -> "1" [] OTHER -> "2"

FmtItems ==
    [ pr_state : {NULL, "OPEN", "MERGED"}, has_upstream : BOOLEAN,
      pull : Counts, push : Counts, dirty : BOOLEAN ]

\* The upstream counts are tested before the state of the pull request.
FormatPullPushCountsFirst(item) ==
    LET pull_push ==
            IF item.has_upstream /\ (item.pull # 0 \/ item.push # 0)
            THEN IntStr(item.pull) \o "v " \o IntStr(item.push) \o "^"
            ELSE IF item.pr_state = "MERGED" THEN "merged (remote deleted)"
            ELSE ""
    IN  IF item.dirty
        THEN (IF pull_push = "" THEN "(dirty)" ELSE pull_push \o " (dirty)")
        ELSE pull_push

\* tui.py _format_pull_push and the first lines of cli.py _format_row; the
\* arrows are written v and ^, and .strip() drops the blank before "(dirty)".
FormatPullPush(item) ==
    LET pull_push ==
            IF item.pr_state = "MERGED" THEN "merged (remote deleted)"
            ELSE IF item.has_upstream /\ (item.pull # 0 \/ item.push # 0)
            THEN IntStr(item.pull) \o "v " \o IntStr(item.push) \o "^"
            ELSE ""
    IN  IF item.dirty
        THEN (IF pull_push = "" THEN "(dirty)" ELSE pull_push \o " (dirty)")
        ELSE pull_push

\* A formatted age: the number and the unit that follows it.
AgeText(n, unit) == [n |-> n, unit |-> unit]

Unknown == AgeText(0, "unknown")

\* tui.py relative_time, cli.py _relative_time
relative_time(ts, now) ==
    LET delta == now - ts
    IN  IF ts <= 0 THEN Unknown
        ELSE IF delta < SecondsPerMinute THEN AgeText(delta, "s ago")
        ELSE IF delta < SecondsPerHour THEN AgeText(delta \div SecondsPerMinute, "m ago")
        ELSE IF delta < SecondsPerDay THEN AgeText(delta \div SecondsPerHour, "h ago")
        ELSE IF delta < SecondsPerWeek THEN AgeText(delta \div SecondsPerDay, "d ago")
        ELSE IF delta < SecondsPerMonth THEN AgeText(delta \div SecondsPerWeek, "w ago")
        ELSE AgeText(delta \div SecondsPerMonth, "mo ago")

Plural(n, unit) == IF n = 1 THEN " " \o unit \o " ago" ELSE " " \o unit \o "s ago"

\* ui.py _format_relative_commit_age, on whole seconds.
FormatRelativeCommitAge(ts, now) ==
    LET delta == now - ts
        minutes == delta \div SecondsPerMinute
        hours == minutes \div MinutesPerHour
        days == hours \div HoursPerDay
        weeks == days \div DaysPerWeek
        months == days \div DaysPerMonth
    IN  IF ts = 0 THEN Unknown
        ELSE IF delta < 0 THEN AgeText(0, "just now")
        ELSE IF minutes < MinutesPerHour
             THEN AgeText(Max(1, minutes), Plural(Max(1, minutes), "minute"))
        ELSE IF hours < HoursPerDay THEN AgeText(hours, Plural(hours, "hour"))
        ELSE IF days < DaysPerWeek THEN AgeText(days, Plural(days, "day"))
        ELSE IF days < DaysPerMonth THEN AgeText(weeks, Plural(weeks, "week"))
        ELSE AgeText(months, Plural(months, "month"))

FmtRun(name) ==
    /\ name \notin fmt_done
    /\ fmt_done' = fmt_done \cup {name}

\* tui.py format_row: the pull/push cell.
FmtTuiRow ==
    /\ FmtRun("tui_row")
    /\ fmt_pull_push' = FormatPullPush(fmt_item)
    /\ UNCHANGED <<fmt_item, fmt_ts, fmt_now, fmt_cli_pull_push, fmt_time, fmt_age,
                   OthersThanFormat>>

\* cli.py _format_row: the pull/push cell.
FmtCliRow ==
    /\ FmtRun("cli_row")
    /\ fmt_cli_pull_push' = FormatPullPush(fmt_item)
    /\ UNCHANGED <<fmt_item, fmt_ts, fmt_now, fmt_pull_push, fmt_time, fmt_age,
                   OthersThanFormat>>

\* tui.py format_row: the last-commit cell.
FmtTime ==
    /\ FmtRun("time")
    /\ fmt_time' = relative_time(fmt_ts, fmt_now)
    /\ UNCHANGED <<fmt_item, fmt_ts, fmt_now, fmt_pull_push, fmt_cli_pull_push, fmt_age,
                   OthersThanFormat>>

\* ui.py _format_row: the age of the last commit.
FmtAge ==
    /\ FmtRun("age")
    /\ fmt_age' = FormatRelativeCommitAge(fmt_ts, fmt_now)
    /\ UNCHANGED <<fmt_item, fmt_ts, fmt_now, fmt_pull_push, fmt_cli_pull_push, fmt_time,
                   OthersThanFormat>>

FmtStep == FmtTuiRow \/ FmtCliRow \/ FmtTime \/ FmtAge

NoFmtItem ==
    [pr_state |-> NULL, has_upstream |-> FALSE, pull |-> 0, push |-> 0, dirty |-> FALSE]

FmtOff ==
    /\ fmt_item = NoFmtItem /\ fmt_ts = 0 /\ fmt_now = 0 /\ fmt_pull_push = ""
    /\ fmt_cli_pull_push = "" /\ fmt_time = Unknown /\ fmt_age = Unknown /\ fmt_done = {}

\* An item and a commit time, the unknown one (0) included.
FmtInit ==
    /\ fmt_item \in FmtItems
    /\ fmt_now \in FmtNows
    /\ fmt_ts \in {0} \cup {fmt_now - d : d \in FmtAges}
    /\ fmt_pull_push = "" /\ fmt_cli_pull_push = ""
    /\ fmt_time = Unknown /\ fmt_age = Unknown /\ fmt_done = {}

\* --------------------------------------- app.py: the comparison target
\* No git subprocess has answered yet.
NoAnswer ==
    [ crash |-> FALSE, upstream |-> NULL, ab_ok |-> FALSE, left |-> 0, right |-> 0,
      refs |-> {}, diff_ok |-> FALSE, added |-> 0, deleted |-> 0, pr_base |-> NULL ]

\* The answers that bear on the target: the refs that resolve, whether the
\* diff succeeds, the base of the pull request found.
TargetAnswers ==
    { git \in GitAnswers :
          /\ ~git.crash /\ git.upstream = NULL /\ ~git.ab_ok
          /\ git.left = 0 /\ git.right = 0 /\ git.added = 0 /\ git.deleted = 0 }

\* _refresh_statuses_local_stream for the worktree.
TgLocal ==
    /\ tg_stage \in {"init", "remote"}
    /\ \E git \in TargetAnswers :
          /\ tg_status' = BuildLocalStatus("a", tg_status, git)
          /\ tg_git' = git
    /\ tg_stage' = "local"
    /\ UNCHANGED OthersThanTarget

\* _refresh_statuses_remote_stream for the worktree.
TgRemote ==
    /\ tg_stage = "local"
    /\ \E git \in TargetAnswers :
          /\ tg_status' = ApplyRemoteUpdates(tg_status, "a", git)
          /\ tg_git' = git
    /\ tg_stage' = "remote"
    /\ UNCHANGED OthersThanTarget

TgStep == TgLocal \/ TgRemote

TgOff == tg_status = PlaceholderFields(NULL) /\ tg_stage = "off" /\ tg_git = NoAnswer

\* The worker has put the placeholder of the worktree.
TgInit == tg_status = PlaceholderFields("a") /\ tg_stage = "init" /\ tg_git = NoAnswer

\* ========================================================== specifications
\* The worktree screen of ui.py is not running.
ScreenOff ==
    /\ cursor = 0 /\ row_order = <<>> /\ statuses_by_path = EmptyMap
    /\ cached_paths = {} /\ status_line = "" /\ refreshing = FALSE
    /\ refresh_requested = FALSE /\ state_lock = NOBODY /\ stop_event = FALSE
    /\ git_worktrees = {} /\ cache_rows = EmptyMap
    /\ w_pc = At("none") /\ w_worktrees = <<>> /\ w_error = FALSE
    /\ w_snapshot = EmptyMap /\ w_local = EmptyMap /\ w_remote = EmptyMap
    /\ w_todo = {} /\ w_cur = NoStatus /\ w_raised = {} /\ w_updates = NoUpdates
    /\ ui_pc = At("off") /\ ui_sel = NoStatus /\ ui_arg = NULL /\ ops = 0
    /\ invalidate_under_lock = FALSE /\ kicks_in_cycle = 0 /\ last_kicks = 0
    /\ last_run_again = FALSE /\ owed = 0

\* ui.py: the worktree screen.
Init == ScreenInit /\ CliOff /\ TuiOff /\ StOff /\ GhOff /\ DbOff /\ AppOff /\
    SecOff /\ TblOff /\ LwOff /\ FmtOff /\ TgOff

Next == WorkerStep \/ UiStep

Spec == Init /\ [][Next]_vars

\* The worker thread, once started, is scheduled until it returns.
FairSpec == Spec /\ WF_vars(WorkerStep)

\* cli.py: the curses front end.
InitCli == CliInit /\ ScreenOff /\ TuiOff /\ StOff /\ GhOff /\ DbOff /\ AppOff /\
    SecOff /\ TblOff /\ LwOff /\ FmtOff /\ TgOff

NextCli == CliRefreshStep \/ CliMainStep

SpecCli == InitCli /\ [][NextCli]_vars

\* tui.py with services.py and cache_db.py: every thread that can run does,
\* and a lock that stays free is granted to a thread that waits for it.
InitTui == TuiInit /\ ScreenOff /\ CliOff /\ StOff /\ GhOff /\ DbOff /\ AppOff /\
    SecOff /\ TblOff /\ LwOff /\ FmtOff /\ TgOff

NextTui == TuiStep

SpecTui == InitTui /\ [][NextTui]_vars

FairSpecTui ==
    /\ SpecTui
    /\ WF_vars(TuiOpDone) /\ WF_vars(TuiFinishAction)
    /\ WF_vars(TuiFetchPrune) /\ WF_vars(TuiDbAcquire)

\* app.py: the stages a worktree's status goes through, pass after pass.
InitStatus == StInit /\ ScreenOff /\ CliOff /\ TuiOff /\ GhOff /\ DbOff /\ AppOff /\
    SecOff /\ TblOff /\ LwOff /\ FmtOff /\ TgOff

NextStatus == StStep

SpecStatus == InitStatus /\ [][NextStatus]_vars

\* services.py: loads of the list and runs of refresh_github, in any order.
InitChecks == GhInit /\ ScreenOff /\ CliOff /\ TuiOff /\ StOff /\ DbOff /\ AppOff /\
    SecOff /\ TblOff /\ LwOff /\ FmtOff /\ TgOff

NextChecks == GhStep

SpecChecks == InitChecks /\ [][NextChecks]_vars

\* cache.py: upserts and loads of the worktrees table, in any order.
InitCache == DbInit /\ ScreenOff /\ CliOff /\ TuiOff /\ StOff /\ GhOff /\ AppOff /\
    SecOff /\ TblOff /\ LwOff /\ FmtOff /\ TgOff

NextCache == DbStep

SpecCache == InitCache /\ [][NextCache]_vars

\* tui.py: lifecycle operations, one after the other, each run to the end of
\* its reload.
NextTuiLife == LifeStep

SpecTuiLife == InitTui /\ [][NextTuiLife]_vars

\* app.py over git.py: lifecycle operations, one after the other.
InitApp == AppInit /\ ScreenOff /\ CliOff /\ TuiOff /\ StOff /\ GhOff /\ DbOff /\
    SecOff /\ TblOff /\ LwOff /\ FmtOff /\ TgOff

NextApp == AppStep

SpecApp == InitApp /\ [][NextApp]_vars

\* services.py over cache_db.py: refresh cycles and reloads, in turn.
InitSections == SecInit /\ ScreenOff /\ CliOff /\ TuiOff /\ StOff /\ GhOff /\ DbOff /\
    AppOff /\ TblOff /\ LwOff /\ FmtOff /\ TgOff

NextSections == SecStep

SpecSections == InitSections /\ [][NextSections]_vars

\* tui.py: cursor keys, repaints and reloads of the table.
InitTable == TblInit /\ ScreenOff /\ CliOff /\ TuiOff /\ StOff /\ GhOff /\ DbOff /\
    AppOff /\ SecOff /\ LwOff /\ FmtOff /\ TgOff

NextTable == TblStep

SpecTable == InitTable /\ [][NextTable]_vars

\* git.py, git_ops.py: one listing is read by both parsers.
InitListing == LwInit /\ ScreenOff /\ CliOff /\ TuiOff /\ StOff /\ GhOff /\ DbOff /\
    AppOff /\ SecOff /\ TblOff /\ FmtOff /\ TgOff

NextListing == LwStep

SpecListing == InitListing /\ [][NextListing]_vars

\* tui.py, cli.py, ui.py: a row is formatted.
InitFormat == FmtInit /\ ScreenOff /\ CliOff /\ TuiOff /\ StOff /\ GhOff /\ DbOff /\
    AppOff /\ SecOff /\ TblOff /\ LwOff /\ TgOff

NextFormat == FmtStep

SpecFormat == InitFormat /\ [][NextFormat]_vars

\* app.py: local build and remote apply of one worktree, in turn.
InitTarget == TgInit /\ ScreenOff /\ CliOff /\ TuiOff /\ StOff /\ GhOff /\ DbOff /\
    AppOff /\ SecOff /\ TblOff /\ LwOff /\ FmtOff

NextTarget == TgStep

SpecTarget == InitTarget /\ [][NextTarget]_vars

\* The three front ends, one of them running: ui.py, cli.py or tui.py.
InitRefresh == Init \/ InitCli \/ InitTui

NextRefresh == Next \/ NextCli \/ NextTui

SpecRefresh == InitRefresh /\ [][NextRefresh]_vars

\* ---------------------------------------------------------------- claims
\* The positions of the worker inside the remote stage of a pass.
RemoteStagePcs ==
    { At("remote_run"), LockPc("remote_update"), LockPc("remote_bulk") }

\* C2: the re-kick debounce of _kick_refresh and _refresh_worker. The pass
\* that just ended is followed by another one exactly when _kick_refresh was
\* called at least once while it ran; however many calls there were, at most
\* one pass is owed at any time, and (stop flag not set) a pass is owed exactly
\* while the worker stands at the top of its loop; when the worker has
\* returned (stop flag not set) refreshing and refresh_requested are false.
ReKickDebounce ==
    /\ last_run_again = (last_kicks >= 1)
    /\ owed \in {0, 1}
    /\ ~stop_event => ((owed = 1) = (w_pc = At("top")))
    /\ (w_pc = At("none") /\ ~stop_event) => (~refreshing /\ ~refresh_requested)

\* Two calls arrived during one pass and the single extra pass is under way.
ReKickDebounceWitness ==
    /\ last_kicks >= 2
    /\ last_run_again
    /\ owed = 0
    /\ w_pc = At("list")
    /\ ~stop_event

StopDiscardsResults ==
    [][stop_event => UNCHANGED <<row_order, statuses_by_path, cached_paths, cache_rows>>]_vars

\* C8: in the remote stage of a pass every worktree already has its local
\* result, delivered through on_update exactly once before the remote stage
\* was set up, and each remote result was computed from that local result.
LocalBeforeRemote ==
    /\ w_pc = At("remote_sync") =>
          \A p \in Range(w_worktrees) : p \in DOMAIN w_local /\ w_updates[p] = 1
    /\ w_pc \in RemoteStagePcs =>
          /\ Range(w_worktrees) \subseteq DOMAIN w_local
          /\ \A p \in DOMAIN w_remote :
                /\ RemoteBase(w_snapshot, p) = w_local[p]
                /\ w_remote[p].last_commit_ts = w_local[p].last_commit_ts

\* A remote result that carries the commit time the local stage has just read.
LocalBeforeRemoteWitness ==
    /\ w_pc = LockPc("remote_bulk")
    /\ \E p \in DOMAIN w_remote :
          /\ w_remote[p].stage = "remote"
          /\ w_local[p].stage = "local"
          /\ w_remote[p].last_commit_ts = GitCommitTs(p)

\* C9: when a stage has gone through its futures every input worktree has
\* exactly one status and had on_update called exactly once; a worktree whose
\* local build raised has a placeholder, one whose remote update raised has
\* the status the stage was given for it, and the others have their results.
ErrorIsolation ==
    /\ w_pc = LockPc("local_bulk") =>
          /\ DOMAIN w_local = Range(w_worktrees)
          /\ \A p \in Range(w_worktrees) :
                /\ w_updates[p] = 1
                /\ w_local[p] = LocalResult(p, p \in w_raised)
    /\ (w_pc = LockPc("remote_bulk") /\ ~w_error) =>
          /\ DOMAIN w_remote = Range(w_worktrees)
          /\ \A p \in Range(w_worktrees) :
                /\ w_updates[p] = 1
                /\ w_remote[p] = RemoteResult(RemoteBase(w_snapshot, p), p \in w_raised)

\* One worktree's remote update raised and it kept its local status while the
\* other worktree got its remote result.
ErrorIsolationWitness ==
    /\ w_pc = LockPc("remote_bulk")
    /\ ~w_error
    /\ \E p, q \in DOMAIN w_remote :
          /\ p \in w_raised /\ w_remote[p].stage = "local"
          /\ q \notin w_raised /\ w_remote[q].stage = "remote"

\* The positions at which a thread of cli.py waits for a child process.
CliSubprocessPcs == {"fetch", "p1_probe", "p2_diff", "gh_probe"}

\* C1: every acquisition of the cache lock is eventually granted, in
\* services.load_worktrees on the event loop and in services.refresh_pull_push
\* on the refresh thread, by get_db_lock() and by CacheDB.__enter__.
EveryLockGranted ==
    /\ (tui_r_pc = "pp_get_db_lock") ~> (tui_r_pc = "pp_cache_db_enter")
    /\ (tui_r_pc = "pp_cache_db_enter") ~> (tui_r_pc = "pp_body")
    /\ (tui_pc = "load_get_db_lock") ~> (tui_pc = "load_cache_db_enter")
    /\ (tui_pc = "load_cache_db_enter") ~> (tui_pc = "load_body")

CacheLockFirst == ~cli_state_then_db

\* The refresh thread holds both locks, the cache lock taken first.
CacheLockFirstWitness ==
    /\ cli_db_lock = "refresh"
    /\ cli_state_lock = "refresh"
    /\ cli_db_then_state

\* C4 as the specification states it: no thread takes the state lock while it
\* holds the cache lock.
StateLockFirst == ~cli_db_then_state

\* C5: while a thread of the refresh waits for a child process it does not
\* hold the state lock.
NoStateLockDuringSubprocess ==
    cli_r_pc \in CliSubprocessPcs => cli_state_lock # "refresh"

ForgeMissingValidated ==
    (~cli_gh /\ cli_r_pc \in {"end", "joined", "none"}) =>
        \A i \in 1..Len(cli_items) :
           cli_items[i].pull_push_stage = "done" =>
              /\ cli_items[i].pr_validated
              /\ cli_items[i].checks_validated
              /\ ~FormatRow(cli_items[i]).pr
              /\ ~FormatRow(cli_items[i]).checks

\* C12: when _reload_items has put the reloaded items in place after an
\* operation that succeeded, the success message is on the status line, the
\* loop is back at its top and a refresh cycle is running for the new items.
SuccessReKicksRefresh ==
    [][(cli_m_pc = "reload_swap" /\ cli_m_pc' # "reload_swap") =>
          /\ cli_status' = "Pulled"
          /\ cli_m_pc' = "render"
          /\ cli_items' = cli_m_new
          /\ cli_running']_vars

\* C13: when _finish_action runs for an operation that failed, the status
\* line gets the action's failure prefix followed by the error text, the app
\* is no longer busy and is idle, no reload is started, and the refresh
\* state is left as it was.
FailureIsAtomic ==
    [][(tui_op_pc = "finish_failed" /\ tui_op_pc' # "finish_failed") =>
          /\ tui_status' = FailurePrefix(tui_op.kind) \o ": stderr"
          /\ ~tui_busy'
          /\ tui_pc' = "idle"
          /\ tui_op_pc' = "none"
          /\ UNCHANGED <<tui_running, tui_r_pc, tui_db_lock>>]_vars

\* A failed pull has been reported and the app is idle again.
FailureIsAtomicWitness ==
    /\ tui_status = "Pull failed: stderr"
    /\ ~tui_busy
    /\ tui_pc = "idle"
    /\ tui_op_pc = "none"

\* C15: a rename or create that is refused, by the checks of the handler or
\* by git in the operation's thread, leaves the branches, the worktrees and
\* the directories of the repository as they were.
RejectedChangesNothing ==
    [][((tui_op_pc = "running" /\ tui_op_pc' = "finish_failed")
          \/ tui_status' \in {"Invalid branch name.", "Branch already exists.",
                              "Branch already exists locally.",
                              "Target worktree path already exists."})
         => UNCHANGED <<tui_branches, tui_wt, tui_dirs>>]_vars

\* The positions of _delete and _rename once the selection is known.
AfterSelectionPcs ==
    { At("delete_check"), LockPc("delete_current"), At("delete_run"),
      LockPc("delete_failed"), LockPc("delete_status"), LockPc("delete_apply"),
      LockPc("delete_clamp"), LockPc("rename_detached"), At("rename_prompt"),
      At("rename_run"), LockPc("rename_failed"), LockPc("rename_apply") }

\* C14: a step of _delete or _rename whose selection has no branch sets the
\* status line to 'Cannot <op> a detached worktree.' and returns: it asks
\* nothing, runs no command and changes neither the rows nor the repository.
DetachedIsRefused ==
    [][(ui_pc' # ui_pc /\ ui_pc \in AfterSelectionPcs
          /\ ui_sel # NoStatus /\ ui_sel.branch = NULL /\ ~IsCurrentPath(ui_sel.path)) =>
          /\ ui_pc' = At("idle")
          /\ status_line' \in {"Cannot delete a detached worktree.",
                               "Cannot rename a detached worktree."}
          /\ UNCHANGED <<row_order, statuses_by_path, cached_paths, git_worktrees,
                         cache_rows>>]_vars

\* C16: every status the placeholder, the local build and the remote apply
\* emit, whether the git probes succeeded or failed, has changes_added,
\* changes_deleted and changes_target all null or all set.
ChangesAllOrNone ==
    st_stage \in {"init", "local", "remote"} =>
        \/ /\ st_status.changes_added = NoInt /\ st_status.changes_deleted = NoInt
           /\ st_status.changes_target = NULL
        \/ /\ st_status.changes_added # NoInt /\ st_status.changes_deleted # NoInt
           /\ st_status.changes_target # NULL

\* C17: every status the placeholder, the local build and the remote apply
\* emit, whether the git probes succeeded or failed, has ahead null exactly
\* when behind is null.
AheadBehindTogether ==
    st_stage \in {"init", "local", "remote"} =>
        (st_status.ahead = NoInt <=> st_status.behind = NoInt)

\* The remote apply has emitted the status of a branch with an upstream whose
\* rev-list failed: both counts are null.
AheadBehindTogetherWitness ==
    /\ st_stage = "remote" /\ st_status.upstream # NULL
    /\ st_status.ahead = NoInt /\ st_status.behind = NoInt

\* The conclusions that count as passed.
Passing == {"SUCCESS", "NEUTRAL", "SKIPPED"}

\* The ChecksInfo just computed is the one the rules give for the rollup it
\* was computed from, Pending saying which of its checks are pending.
ClassifiedWith(Pending(_)) ==
    (gh_pc = "store" /\ gh_info # <<>>) =>
        LET n == Len(gh_rollup)
            passed == {i \in 1..n : gh_rollup[i].conclusion \in Passing}
            failed == {i \in 1..n : gh_rollup[i].conclusion \notin Passing \cup {NULL}}
            pending == {i \in 1..n : Pending(gh_rollup[i])}
        IN  /\ gh_info[1].total = n
            /\ gh_info[1].passed = Cardinality(passed)
            /\ gh_info[1].state = IF n = 0 THEN NULL
                                  ELSE IF failed # {} THEN "fail"
                                  ELSE IF pending # {} THEN "pend"
                                  ELSE "ok"

PendingAsStated(check) == check.state # "COMPLETED" \/ check.conclusion = NULL

PendingAsCoded(check) ==
    \/ check.state \notin {NULL, "", "COMPLETED"}
    \/ check.conclusion = NULL

\* C18, as stated: total is the length of the list, passed the number of
\* checks concluded SUCCESS, NEUTRAL or SKIPPED; a check is pending when its
\* state is not COMPLETED or its conclusion is null, failed when it has any
\* other conclusion; the overall state is null without checks, else fail if
\* a check failed, else pend if one is pending, else ok.
ClassifyAsStated == ClassifiedWith(PendingAsStated)

\* C18, amended: the same, but a check is pending when its state is present
\* (neither null nor empty) and not COMPLETED, or its conclusion is null.
ClassifyAsCoded == ClassifiedWith(PendingAsCoded)

\* A rollup whose only check succeeded and carries no state: it is ok.
ClassifyAsCodedWitness ==
    /\ gh_pc = "store" /\ gh_info # <<>> /\ Len(gh_rollup) = 1
    /\ gh_rollup[1] = [conclusion |-> "SUCCESS", state |-> NULL]
    /\ gh_info[1] = [passed |-> 1, total |-> 1, state |-> "ok"]

\* Both counts are set and the first exceeds the second.
Exceeds(passed, total) == passed # NoInt /\ total # NoInt /\ passed[1] > total[1]

\* C19: checks_passed <= checks_total whenever both are set, in every
\* ChecksInfo classify_checks returns, in every item after any sequence of
\* loads and refresh_github runs, and in every row of the cache.
PassedAtMostTotal ==
    /\ gh_info # <<>> => gh_info[1].passed <= gh_info[1].total
    /\ \A i \in 1..Len(gh_items) :
          ~Exceeds(gh_items[i].checks_passed, gh_items[i].checks_total)
    /\ \A k \in DOMAIN gh_cache :
          ~Exceeds(gh_cache[k].checks_passed, gh_cache[k].checks_total)

\* The list was loaded from a cache row that an earlier refresh_github wrote
\* with every check passed.
PassedAtMostTotalWitness ==
    /\ gh_items # <<>> /\ ~gh_items[1].checks_validated
    /\ gh_items[1].checks_passed = Some(MaxChecks)
    /\ gh_items[1].checks_total = Some(MaxChecks)

\* The key of the latest call is the branch when the branch is non-empty and
\* not "(detached)", else "detached:" followed by the head.
KeyAsStated ==
    gh_call # NoCall =>
        /\ (gh_call.branch # "" /\ gh_call.branch # "(detached)") =>
              gh_call.key = gh_call.branch
        /\ (gh_call.branch = "" \/ gh_call.branch = "(detached)") =>
              gh_call.key = "detached:" \o gh_call.head

\* C20: cache_key(branch, head) is deterministic, a call with the inputs of
\* the call before it returns the same key; a non-empty branch other than
\* "(detached)" gives the branch itself, an empty branch or "(detached)"
\* gives "detached:" followed by the head.
CacheKeyDeterministic ==
    /\ []KeyAsStated
    /\ [][(gh_call'.branch = gh_call.branch /\ gh_call'.head = gh_call.head) =>
             gh_call'.key = gh_call.key]_vars

\* The latest call was for a detached worktree, after a call for the branch
\* main whose row is in the cache.
CacheKeyDeterministicWitness ==
    /\ gh_call.branch = "(detached)" /\ gh_call.key = "detached:h2"
    /\ "main" \in DOMAIN gh_cache

\* C21, as stated: for every collection xs, upsert_worktrees(xs) followed by
\* load_worktrees returns the statuses of xs, field by field (nulls kept,
\* path rebuilt), as a set.
RoundTripAlways ==
    db_pc = "round_trip" => db_loaded = Range(db_xs)

\* C21, amended: the same for every collection xs whose statuses have
\* pairwise different paths, upserted into a table that holds no row for a
\* path that is not in xs.
RoundTripOnOwnPaths ==
    (/\ db_pc = "round_trip"
     /\ \A i, j \in 1..Len(db_xs) : db_xs[i].path = db_xs[j].path => i = j
     /\ db_before \subseteq {PathStr(db_xs[i].path) : i \in 1..Len(db_xs)})
        => db_loaded = Range(db_xs)

\* Two statuses, one with a null branch and a null count, were upserted over
\* an older row of one of them and loaded back.
RoundTripOnOwnPathsWitness ==
    /\ db_pc = "round_trip" /\ Len(db_xs) = 2 /\ db_before = {"repo/a"}
    /\ db_xs[1].path # db_xs[2].path
    /\ db_xs[1].branch = NULL /\ db_xs[1].ahead = NoInt
    /\ db_loaded = Range(db_xs)

\* C22: after creating a worktree B, renaming B to B' and deleting B', each
\* followed by the reload, the cache has no row with key B or B'.
LifecycleLeavesNoRow ==
    \A B, Bnew \in TuiTyped \ {NULL} :
        tui_life = << [kind |-> "create", path |-> NULL, new |-> B],
                      [kind |-> "rename", path |-> B, new |-> Bnew],
                      [kind |-> "delete", path |-> Bnew, new |-> NULL] >>
            => (B \notin tui_cache /\ Bnew \notin tui_cache)

SectionAgrees(stage, item, rows) ==
    /\ item.cache_key \in DOMAIN rows
    /\ LET row == rows[item.cache_key]
       IN  CASE stage = "pull_push" ->
                   row.pull = Some(item.pull) /\ row.push = Some(item.push)
             [] stage = "changes" ->
                   /\ row.additions = Some(item.additions)
                   /\ row.deletions = Some(item.deletions)
                   /\ row.dirty = Some(IF item.dirty THEN 1 ELSE 0)
             [] stage = "github" ->
                   row.pr_number = item.pr_number /\ row.checks_state = item.checks_state

\* The section of a stage has been refreshed on the item.
SectionValidated(stage, item) ==
    CASE stage = "pull_push" -> item.pull_push_validated
      [] stage = "changes" -> item.changes_validated
      [] stage = "github" -> item.pr_validated /\ item.checks_validated

SecStages == {"pull_push", "changes", "github"}

\* When a cycle has ended every item agrees with its row on the changes
\* section, the one section refresh_changes writes for items of every kind.
ChangesAgreeAtEnd ==
    sec_pc = "done" =>
        \A i \in 1..Len(sec_items) :
            sec_items[i].changes_validated => SectionAgrees("changes", sec_items[i], sec_rows)

\* C24: after a stage has refreshed a section of a worktree the row under
\* the worktree's cache key holds the values just computed, and when a
\* cycle has ended the row of every item agrees with the item on every
\* refreshed section.
CacheAgreesAfterRefresh ==
    /\ sec_last.stage \in SecStages =>
           SectionAgrees(sec_last.stage, sec_items[sec_last.idx], sec_rows)
    /\ sec_pc = "done" =>
           \A i \in 1..Len(sec_items) : \A stage \in SecStages :
               SectionValidated(stage, sec_items[i]) =>
                   SectionAgrees(stage, sec_items[i], sec_rows)

\* The columns each stage writes through its upsert, path included.
SectionColumns(stage) ==
    CASE stage = "pull_push" -> {"path", "pull", "push", "pullpush_validated_at"}
      [] stage = "changes" -> {"path", "additions", "deletions", "dirty", "changes_updated_at"}
      [] stage = "github" -> {"path", "pr_number", "pr_updated_at", "checks_state",
                              "checks_updated_at"}
      [] OTHER -> {"path"}

\* C25: a step of a stage changes, on the rows that exist, only the columns
\* of its section and only in the row of its item's cache key; a load
\* (upsert_path) changes only path; no row is dropped.
SectionScopedUpserts ==
    [][ /\ DOMAIN sec_rows \subseteq DOMAIN sec_rows'
        /\ \A key \in DOMAIN sec_rows : \A col \in DOMAIN SecEmptyRow :
              sec_rows'[key][col] # sec_rows[key][col] =>
                  /\ col \in SectionColumns(sec_pc)
                  /\ sec_pc \in SecStages => key = sec_items[sec_idx].cache_key ]_vars

\* upsert_pull_push has written a row that holds the changes and the pull
\* request of an earlier cycle.
SectionScopedUpsertsWitness ==
    /\ sec_last.stage = "pull_push" /\ sec_last.upsert # NULL
    /\ sec_rows[sec_last.upsert].additions # NoInt
    /\ sec_rows[sec_last.upsert].pr_number # NULL
    /\ sec_rows[sec_last.upsert].pullpush_validated_at = Some(sec_now)

\* The zero-based position of the first occurrence of x in s.
FirstAt(s, x) == CHOOSE i \in 0..(Len(s) - 1) : s[i + 1] = x /\ \A j \in 1..i : s[j] # x

\* C26: the screen opens with the cached rows ordered by last_commit_ts,
\* newest first; the worker's merge installs a row_order that holds exactly
\* the listed paths, each once, the surviving paths in their previous
\* relative order and every newcomer after every surviving path.
DisplayOrder ==
    /\ /\ Range(row_order) = DOMAIN cache_rows
       /\ \A i, j \in 1..Len(row_order) :
             i < j => /\ row_order[i] # row_order[j]
                      /\ cache_rows[row_order[i]].last_commit_ts
                             >= cache_rows[row_order[j]].last_commit_ts
    /\ [][ (w_pc = LockPc("merge") /\ w_pc' = LockPc("clamp")) =>
              /\ Range(row_order') = Range(w_worktrees)
              /\ \A i, j \in 1..Len(row_order') :
                    i < j =>
                        /\ row_order'[i] # row_order'[j]
                        /\ row_order'[j] \in Range(row_order) =>
                               /\ row_order'[i] \in Range(row_order)
                               /\ FirstAt(row_order, row_order'[i])
                                      < FirstAt(row_order, row_order'[j]) ]_vars

\* The merge has put the newcomer a after the surviving b, against the
\* order of the listing, and has dropped the cached row c.
DisplayOrderWitness ==
    /\ w_pc = LockPc("clamp")
    /\ w_worktrees = <<"a", "b">>
    /\ row_order = <<"b", "a">>
    /\ DOMAIN cache_rows = {"b", "c"}

\* C27: cached_paths holds only paths of row_order.
CachedPathsInRowOrder == cached_paths \subseteq Range(row_order)

\* C28: cursor is an index of row_order, or 0 when row_order is empty.
CursorIsValidIndex ==
    IF row_order = <<>> THEN cursor = 0 ELSE cursor \in 0..(Len(row_order) - 1)

\* C29: after a repaint or a reload the cursor is on the row whose path
\* was selected before, when that path is still in the table.
CursorFollowsPath ==
    (tbl_op \in {"repaint", "reload"} /\ tbl_before # NULL
        /\ \E i \in 1..Len(tbl_items) : tbl_items[i].path = tbl_before)
    => PathUnderCursor(tbl_items, tbl_cursor) = tbl_before

\* The entry the claim gives a record: its path, its short branch, its head.
EntryOfRecord(rec) == [path |-> rec.path, branch |-> ShortBranch(rec.ref), head |-> rec.head]

\* The records the claim keeps: not bare, and not the one at the repository
\* root without a branch.
ListedRecords ==
    { i \in DOMAIN lw_records :
          /\ lw_records[i].tag # "bare"
          /\ ~(lw_records[i].ref = <<>> /\ Resolve(lw_records[i].path) = Resolve(lw_root)) }

\* C30: git.list_worktrees returns the entries of the non-bare records, one
\* each, with the short branch name: no entry of a bare record and no entry
\* at the repository root without a branch.
ListWorktreesExcludes ==
    lw_pc \in {"listed", "done"} =>
        /\ \A i \in DOMAIN lw_out :
              /\ \E k \in ListedRecords : lw_out[i] = EntryOfRecord(lw_records[k])
              /\ \A j \in DOMAIN lw_out : i # j => lw_out[i].path # lw_out[j].path
        /\ \A k \in ListedRecords : \E i \in DOMAIN lw_out : lw_out[i] = EntryOfRecord(lw_records[k])

\* C31: the pull/push cell of an item whose pull request is merged reads
\* "merged (remote deleted)", followed by "(dirty)" for a dirty worktree,
\* whatever the counts and the upstream flag are.
MergedIsShown ==
    fmt_item.pr_state = "MERGED" =>
        /\ "tui_row" \in fmt_done =>
               fmt_pull_push = "merged (remote deleted)"
                   \o (IF fmt_item.dirty THEN " (dirty)" ELSE "")
        /\ "cli_row" \in fmt_done =>
               fmt_cli_pull_push = "merged (remote deleted)"
                   \o (IF fmt_item.dirty THEN " (dirty)" ELSE "")

\* Both front ends have formatted a merged item that has an upstream and
\* commits to pull and to push.
MergedIsShownWitness ==
    /\ {"tui_row", "cli_row"} \subseteq fmt_done
    /\ fmt_item.pr_state = "MERGED" /\ fmt_item.has_upstream
    /\ fmt_item.pull > 0 /\ fmt_item.push > 0
    /\ fmt_pull_push = "merged (remote deleted)"

\* The unit the claim gives an age: the largest threshold it has reached.
StatedUnit(d) ==
    IF d < SecondsPerMinute THEN 1
    ELSE CHOOSE t \in FmtThresholds : t <= d /\ \A u \in FmtThresholds : u <= d => u <= t

StatedSuffix(unit) ==
    CASE unit = SecondsPerMinute -> "m ago"
      [] unit = SecondsPerHour -> "h ago"
      [] unit = SecondsPerDay -> "d ago"
      [] unit = SecondsPerWeek -> "w ago"
      [] unit = SecondsPerMonth -> "mo ago"
      [] OTHER -> "s ago"

StatedAge(ts, now) ==
    IF ts = 0 THEN Unknown
    ELSE AgeText((now - ts) \div StatedUnit(now - ts), StatedSuffix(StatedUnit(now - ts)))

\* The buckets in relative_time of tui.py and cli.py alone.
RelativeTimeBuckets == "time" \in fmt_done => fmt_time = StatedAge(fmt_ts, fmt_now)

\* C33: an unknown timestamp gives "unknown"; an age d gives d divided by
\* the unit of its bucket, the buckets starting at 60, 3600, 86400, 604800
\* and 2629800 seconds, in relative_time and in
\* _format_relative_commit_age alike.
RelativeTimeAsStated ==
    /\ "time" \in fmt_done => fmt_time = StatedAge(fmt_ts, fmt_now)
    /\ "age" \in fmt_done => fmt_age = StatedAge(fmt_ts, fmt_now)

\* The label the claim gives the comparison target: the base of the pull
\* request when one is known, else main if it resolves, else the default.
StatedLabel(refs, pr_base) ==
    IF pr_base # NULL THEN pr_base
    ELSE IF "main" \in refs THEN "main" ELSE DefaultBranch

\* Some ref of the claim's three resolves.
StatedResolves(refs, label) ==
    label \in refs \/ ("origin/" \o label) \in refs \/ DefaultBranch \in refs

\* C32: a status built for a branch has, when the diff succeeded, the
\* target label of the pull request's base (the cached one in the local
\* build, the discovered one in the remote apply), else main, else the
\* default branch; when no ref resolves its three change fields are null.
TargetAsStated ==
    (tg_stage \in {"local", "remote"} /\ ~tg_git.crash) =>
        LET label == StatedLabel(tg_git.refs, tg_status.pr_base)
        IN  IF StatedResolves(tg_git.refs, label)
            THEN tg_git.diff_ok => tg_status.changes_target = label
            ELSE /\ tg_status.changes_added = NoInt /\ tg_status.changes_deleted = NoInt
                 /\ tg_status.changes_target = NULL

\* The same for the remote apply alone, where some ref resolves.
RemoteTargetAsStated ==
    (tg_stage = "remote" /\ ~tg_git.crash
        /\ StatedResolves(tg_git.refs, StatedLabel(tg_git.refs, tg_status.pr_base))
        /\ tg_git.diff_ok)
    => tg_status.changes_target = StatedLabel(tg_git.refs, tg_status.pr_base)

\* C34: a refresh thread is started only while none is running: by
\* _kick_refresh of ui.py (the step of the handler that adds a cycle to the
\* cycles owed), by _start_refresh_thread of cli.py and by
\* _start_refresh_thread of tui.py.
OneRefreshWorker ==
    [][ /\ (ui_pc = LockPc("kick") /\ ui_pc' = At("idle") /\ owed' # owed)
            => w_pc = At("none")
        /\ (cli_r_pc' = "fetch" /\ cli_r_pc # "fetch") => cli_r_pc = "none"
        /\ (tui_r_pc' = "fetch" /\ tui_r_pc # "fetch") => tui_r_pc = "none" ]_vars

\* A _kick_refresh has arrived while the worker was inside its cycle: the
\* request is flagged and the worker goes on.
OneRefreshWorkerWitness ==
    /\ refreshing /\ refresh_requested
    /\ w_pc = LockPc("merge")
    /\ ui_pc = At("idle")

KickLeadsToListing ==
    (~stop_event /\ (owed = 1 \/ refresh_requested))
        ~> (stop_event \/ w_pc = At("list"))

ReloadedItemsValidated ==
    (sec_pc \in {"idle", "done"} /\ sec_cycles >= 1) =>
        \A i \in 1..Len(sec_items) : sec_items[i].pull_push_validated

RowsHaveStatuses == Range(row_order) \subseteq DOMAIN statuses_by_path

\* C39, as stated: statuses_by_path never holds an entry for a path that is
\* not in row_order.
NoStatusWithoutRow == DOMAIN statuses_by_path \subseteq Range(row_order)

\* The part about deleted and renamed worktrees alone: no status is held for
\* a path that is neither a row nor a worktree of the repository.
DeletedStatusNotBroughtBack ==
    \A p \in DOMAIN statuses_by_path : p \in Range(row_order) \/ p \in git_worktrees

\* C40, as stated: worktrees listed together have distinct cache keys and
\* each has its own row, so the row under an item's key holds that item's
\* path.
DistinctCacheKeys ==
    /\ \A i, j \in 1..Len(sec_items) :
          i # j => sec_items[i].cache_key # sec_items[j].cache_key
    /\ \A i \in 1..Len(sec_items) :
          sec_items[i].cache_key \in DOMAIN sec_rows
              => sec_rows[sec_items[i].cache_key].path = sec_items[i].path

\* Worktrees on branches and a single detached one have rows of their own.
BranchKeysDistinct ==
    \A i, j \in 1..Len(sec_items) :
        (i # j /\ sec_items[i].ref_name # NULL)
            => sec_items[i].cache_key # sec_items[j].cache_key

====
